---- MODULE Spec2Model ----
(***************************************************************************)
(* Model of the English_Bot vocabulary bot: the SQLite record store        *)
(* (database.py), the entry-line parser (parser.py) and the aiogram        *)
(* handlers, keyboards, pagination, token cache and FSM of bot.py.         *)
(*                                                                         *)
(* Text is modelled as a sequence of characters; a character is a string.  *)
(* The characters outside ASCII that the code names are written "EMDASH",  *)
(* "ENDASH" and "BULLET".  The secondary ("ru") texts of the model use     *)
(* Latin letters: the code treats every letter through str.strip and       *)
(* str.lower only.                                                         *)
(*                                                                         *)
(* One action is one handler run to completion on one update: the updates  *)
(* of one user are taken to be handled one after the other.  SpecAsync     *)
(* splits the page renders at their await and interleaves other handlers.  *)
(***************************************************************************)
EXTENDS Integers, Sequences, FiniteSets, TLC

VARIABLES
    entries,      \* rows of table "entries" (database.py:44-55)
    nextId,       \* next rowid AUTOINCREMENT hands out (sqlite_sequence + 1)
    fsm,          \* aiogram FSM storage per user: state ("idle" is None) and data
                  \* (<<>> is {}, else <<edit_entry_id, edit_field>>)
    FIND_CACHE,   \* bot.py:32  {user_id: {token: query}}
    issued,       \* history: per user and token, the query last issued since process
                  \* start (NULL: never issued, LOST: issued before the last restart)
    out,          \* what the last handled update did (the observable reply)
    inflight      \* per user, the page render suspended in its await (bot.py:215,
                  \* 257): the reply it computed and, as history, the store it read

vars == <<entries, nextId, fsm, FIND_CACHE, issued, out, inflight>>

-----------------------------------------------------------------------------
(* Bounds and program constants *)

PAGE_SIZE == 15

MaxId == 3

Users == {1, 2}

-----------------------------------------------------------------------------
(* Characters and Python string primitives *)

UPPER == <<"A","B","C","D","E","F","G","H","I","J","K","L","M",
           "N","O","P","Q","R","S","T","U","V","W","X","Y","Z">>

LOWERS == <<"a","b","c","d","e","f","g","h","i","j","k","l","m",
            "n","o","p","q","r","s","t","u","v","w","x","y","z">>

DIGITS == <<"0","1","2","3","4","5","6","7","8","9">>

\* the characters of the model in code-point order (SQLite BINARY collation)
CODE_ORDER == <<"\n", " ", "%", ")", "*", "+", "-", ".", "/">> \o DIGITS \o <<":">>
              \o UPPER \o <<"_">> \o LOWERS \o <<"|", "ENDASH", "EMDASH", "BULLET">>

Ord(c) == CHOOSE i \in 1..Len(CODE_ORDER) : CODE_ORDER[i] = c

IsDigit(c) == \E i \in 1..10 : DIGITS[i] = c

DigitVal(c) == (CHOOSE i \in 1..10 : DIGITS[i] = c) - 1

LowerChar(c) == IF \E i \in 1..26 : UPPER[i] = c
                THEN LOWERS[CHOOSE i \in 1..26 : UPPER[i] = c]
                ELSE c

\* str.lower()
Lower(s) == [i \in 1..Len(s) |-> LowerChar(s[i])]

\* str.lstrip(chars): drop the leading characters that are in cs
RECURSIVE LStripSet(_, _)
LStripSet(s, cs) == IF s # <<>> /\ Head(s) \in cs THEN LStripSet(Tail(s), cs) ELSE s

RECURSIVE RStripSet(_, _)
RStripSet(s, cs) == IF s # <<>> /\ s[Len(s)] \in cs
                    THEN RStripSet(SubSeq(s, 1, Len(s) - 1), cs) ELSE s

\* str.strip()
Strip(s) == RStripSet(LStripSet(s, {" ", "\n"}), {" ", "\n"})

\* position of the first character of s that is in cs, 0 when there is none
FirstIn(s, cs) == IF \E i \in 1..Len(s) : s[i] \in cs
                  THEN CHOOSE i \in 1..Len(s) : s[i] \in cs /\ \A j \in 1..(i-1) : s[j] \notin cs
                  ELSE 0

\* str.split(sep, maxsplit) for a one-character sep; maxsplit = -1 splits everywhere
RECURSIVE Split(_, _, _)
Split(s, sep, maxsplit) ==
    LET i == FirstIn(s, {sep}) IN
    IF maxsplit = 0 \/ i = 0 THEN <<s>>
    ELSE <<SubSeq(s, 1, i - 1)>> \o Split(SubSeq(s, i + 1, Len(s)), sep, maxsplit - 1)

\* str.startswith(p)
StartsWith(s, p) == Len(s) >= Len(p) /\ SubSeq(s, 1, Len(p)) = p

\* p occurs in s as a substring
Contains(s, p) == \E i \in 1..(Len(s) - Len(p) + 1) : SubSeq(s, i, i + Len(p) - 1) = p

\* str(n) for an integer n
RECURSIVE StrNat(_)
StrNat(n) == IF n < 10 THEN <<DIGITS[n + 1]>>
             ELSE StrNat(n \div 10) \o <<DIGITS[(n % 10) + 1]>>

Str(n) == IF n < 0 THEN <<"-">> \o StrNat(-n) ELSE StrNat(n)

\* int(s): the strings int() accepts among those of the model's characters are
\* an optional sign followed by one or more digits; any other string raises
\* ValueError
AllDigits(s) == s # <<>> /\ \A i \in 1..Len(s) : IsDigit(s[i])

IsInt(s) == IF s # <<>> /\ Head(s) \in {"-", "+"} THEN AllDigits(Tail(s)) ELSE AllDigits(s)

RECURSIVE NatOf(_)
NatOf(s) == IF s = <<>> THEN 0
            ELSE NatOf(SubSeq(s, 1, Len(s) - 1)) * 10 + DigitVal(s[Len(s)])

IntOf(s) == IF Head(s) = "-" THEN 0 - NatOf(Tail(s))
            ELSE IF Head(s) = "+" THEN NatOf(Tail(s))
            ELSE NatOf(s)

\* s < t in code-point order
RECURSIVE SeqLess(_, _)
SeqLess(s, t) ==
    IF t = <<>> THEN FALSE
    ELSE IF s = <<>> THEN TRUE
    ELSE IF Head(s) # Head(t) THEN Ord(Head(s)) < Ord(Head(t))
    ELSE SeqLess(Tail(s), Tail(t))

Max2(a, b) == IF a >= b THEN a ELSE b

Min2(a, b) == IF a <= b THEN a ELSE b

\* SQL NULL / Python None where a text may be absent
NULL == <<"NULL">>

\* history value only: a token issued by an earlier process
LOST == <<"LOST">>

-----------------------------------------------------------------------------
(* parser.py *)

\* the characters DASH_RE names (parser.py:3)
DASHES == {"EMDASH", "ENDASH", "-"}

NoParse == [ok |-> FALSE, en |-> <<>>, ru |-> <<>>, example |-> NULL, tags |-> NULL]

StripAll(ps) == [i \in 1..Len(ps) |-> Strip(ps[i])]

\* parser.py:27-32: the value of the last "ex:"/"example:" segment (key = "ex")
\* or of the last "tag:"/"tags:" segment (key = "tag") of parts[1:], else cur
RECURSIVE OptField(_, _, _)
OptField(ps, key, cur) ==
    IF ps = <<>> THEN cur
    ELSE LET p  == Head(ps)
             pl == Lower(p)
             isEx  == StartsWith(pl, <<"e","x",":">>)
                      \/ StartsWith(pl, <<"e","x","a","m","p","l","e",":">>)
             isTag == StartsWith(pl, <<"t","a","g",":">>)
                      \/ StartsWith(pl, <<"t","a","g","s",":">>)
             val == Strip(Split(p, ":", 1)[2])
         IN  IF key = "ex" /\ isEx THEN OptField(Tail(ps), key, val)
             ELSE IF key = "tag" /\ ~isEx /\ isTag THEN OptField(Tail(ps), key, val)
             ELSE OptField(Tail(ps), key, cur)

\* parser.py:6-34.  DASH_RE.split(head, maxsplit=1) cuts head at its first dash
\* character together with the white space around it; both sides are stripped
\* again, so en and ru are the stripped text before and after that character.
parse_entry(text) ==
    LET parts == StripAll(Split(text, "|", -1))
        head  == parts[1]
        d     == FirstIn(head, DASHES)
        en    == Strip(SubSeq(head, 1, d - 1))
        ru    == Strip(SubSeq(head, d + 1, Len(head)))
    IN  IF d = 0 THEN NoParse
        ELSE IF en = <<>> \/ ru = <<>> THEN NoParse
        ELSE [ok |-> TRUE, en |-> en, ru |-> ru,
              example |-> OptField(Tail(parts), "ex", NULL),
              tags |-> OptField(Tail(parts), "tag", NULL)]

-----------------------------------------------------------------------------
(* database.py: every operation runs in a transaction of its own and is      *)
(* scoped by user_id.  The column created_at is written on insert and never   *)
(* read; it is left out.                                                      *)

OfUser(E, uid) == {r \in E : r.user_id = uid}

\* the tuple a SELECT id, en, ru, example, tags returns
Row(r) == <<r.id, r.en, r.ru, r.example, r.tags>>

NoRow == <<>>

\* variant of UniqueConflict: a constraint UNIQUE(user_id, en)
UniqueConflict_exact(E, uid, id, en_norm) ==
    \E r \in E : r.user_id = uid /\ r.id # id /\ r.en = en_norm

\* database.py:54  UNIQUE(user_id, en_norm): some other row of uid has en_norm
UniqueConflict(E, uid, id, en_norm) ==
    \E r \in E : r.user_id = uid /\ r.id # id /\ r.en_norm = en_norm

\* variant of upsert_entry: DO UPDATE SET without en=excluded.en
upsert_entry_keep_en(E, nid, user_id, en, ru, example, tags) ==
    LET en_norm == Lower(Strip(en))
        ru_norm == Lower(Strip(ru))
    IN  IF \E r \in E : r.user_id = user_id /\ r.en_norm = en_norm
        THEN {IF r.user_id = user_id /\ r.en_norm = en_norm
              THEN [r EXCEPT !.ru = Strip(ru), !.ru_norm = ru_norm,
                             !.example = example, !.tags = tags]
              ELSE r : r \in E}
        ELSE E \cup {[id |-> nid, user_id |-> user_id, en |-> Strip(en),
                      en_norm |-> en_norm, ru |-> Strip(ru), ru_norm |-> ru_norm,
                      example |-> example, tags |-> tags]}

\* database.py:70-92
upsert_entry(E, nid, user_id, en, ru, example, tags) ==
    LET en_norm == Lower(Strip(en))
        ru_norm == Lower(Strip(ru))
    IN  IF \E r \in E : r.user_id = user_id /\ r.en_norm = en_norm
        THEN {IF r.user_id = user_id /\ r.en_norm = en_norm
              THEN [r EXCEPT !.en = Strip(en), !.ru = Strip(ru), !.ru_norm = ru_norm,
                             !.example = example, !.tags = tags]
              ELSE r : r \in E}
        ELSE E \cup {[id |-> nid, user_id |-> user_id, en |-> Strip(en),
                      en_norm |-> en_norm, ru |-> Strip(ru), ru_norm |-> ru_norm,
                      example |-> example, tags |-> tags]}

\* database.py:95-108 (the rows left; the rowcount is the number removed)
delete_by_en(E, user_id, en) ==
    {r \in E : ~(r.user_id = user_id /\ r.en_norm = Lower(Strip(en)))}

\* variant of delete_by_id: DELETE FROM entries WHERE id=?
delete_by_id_any(E, user_id, entry_id) ==
    {r \in E : r.id # entry_id}

\* database.py:111-123
delete_by_id(E, user_id, entry_id) ==
    {r \in E : ~(r.user_id = user_id /\ r.id = entry_id)}

\* SQLite's LIKE: "%" matches any run of characters, "_" any one character,
\* letters match without regard to case
RECURSIVE Like(_, _)
Like(s, pat) ==
    IF pat = <<>> THEN s = <<>>
    ELSE IF Head(pat) = "%"
         THEN \E k \in 0..Len(s) : Like(SubSeq(s, k + 1, Len(s)), Tail(pat))
    ELSE IF s = <<>> THEN FALSE
    ELSE (Head(pat) = "_" \/ LowerChar(Head(pat)) = LowerChar(Head(s)))
         /\ Like(Tail(s), Tail(pat))

\* qn = f"%{q.strip().lower()}%"
LikePattern(q) == <<"%">> \o Lower(Strip(q)) \o <<"%">>

\* s[:1] in Python, substr(s, 1, 1) in SQLite: the first character, or ""
First1(s) == SubSeq(s, 1, Min2(1, Len(s)))

\* letter.strip().lower()[:1]
LetterNorm(letter) == First1(Lower(Strip(letter)))

AllRows(E, uid) == OfUser(E, uid)

LetterRows(E, uid, letter) ==
    {r \in OfUser(E, uid) : First1(r.en_norm) = LetterNorm(letter)}

FindRows(E, uid, q) ==
    {r \in OfUser(E, uid) : Like(r.en_norm, LikePattern(q)) \/ Like(r.ru_norm, LikePattern(q))}

\* rows, sorted by en_norm, with r put in its place
InsertByEnNorm(rows, r) ==
    LET k == Cardinality({i \in 1..Len(rows) : SeqLess(rows[i].en_norm, r.en_norm)})
    IN  SubSeq(rows, 1, k) \o <<r>> \o SubSeq(rows, k + 1, Len(rows))

\* ORDER BY en_norm ASC; the rows of one user differ in en_norm (database.py:54)
RECURSIVE OrderByEnNorm(_)
OrderByEnNorm(R) ==
    IF R = {} THEN <<>>
    ELSE LET r == CHOOSE x \in R : TRUE
         IN  InsertByEnNorm(OrderByEnNorm(R \ {r}), r)

\* variant of LimitOffset: LIMIT limit - 1
LimitOffset_short(rows, limit, offset) ==
    LET off == Max2(offset, 0)
    IN  SubSeq(rows, off + 1, Min2(Len(rows), off + limit - 1))

\* LIMIT limit OFFSET offset; SQLite reads a negative OFFSET as 0
LimitOffset(rows, limit, offset) ==
    LET off == Max2(offset, 0)
    IN  SubSeq(rows, off + 1, Min2(Len(rows), off + limit))

RowsOf(rs) == [i \in 1..Len(rs) |-> Row(rs[i])]

\* database.py:126-137
count_all(E, user_id) == Cardinality(AllRows(E, user_id))

\* database.py:140-153
count_by_letter(E, user_id, letter) == Cardinality(LetterRows(E, user_id, letter))

\* database.py:156-170
count_find(E, user_id, q) == Cardinality(FindRows(E, user_id, q))

\* database.py:173-187
list_entries(E, user_id, limit, offset) ==
    RowsOf(LimitOffset(OrderByEnNorm(AllRows(E, user_id)), limit, offset))

\* database.py:190-206
list_by_letter(E, user_id, letter, limit, offset) ==
    RowsOf(LimitOffset(OrderByEnNorm(LetterRows(E, user_id, letter)), limit, offset))

\* database.py:209-224
find_entries(E, user_id, q, limit, offset) ==
    RowsOf(LimitOffset(OrderByEnNorm(FindRows(E, user_id, q)), limit, offset))

\* database.py:308-323
search_entries_both(E, user_id, q, limit) ==
    RowsOf(LimitOffset(OrderByEnNorm(FindRows(E, user_id, q)), limit, 0))

\* database.py:227-242: the rows ORDER BY RANDOM() LIMIT 1 may return
get_random_entry(E, user_id) == {Row(r) : r \in OfUser(E, user_id)}

\* database.py:245-257
get_entry_by_id(E, user_id, entry_id) ==
    IF \E r \in E : r.user_id = user_id /\ r.id = entry_id
    THEN Row(CHOOSE r \in E : r.user_id = user_id /\ r.id = entry_id)
    ELSE NoRow

\* example.strip() if example.strip() else None
StripOrNull(s) == IF Strip(s) # <<>> THEN Strip(s) ELSE NULL

\* variant of ApplySets: a SET clause list that always carries example=NULL
ApplySets_all(r, en, ru, example, tags) ==
    LET r1 == IF en # NULL THEN [r EXCEPT !.en = Strip(en), !.en_norm = Lower(Strip(en))] ELSE r
        r2 == IF ru # NULL THEN [r1 EXCEPT !.ru = Strip(ru), !.ru_norm = Lower(Strip(ru))] ELSE r1
        r3 == [r2 EXCEPT !.example = IF example # NULL THEN StripOrNull(example) ELSE NULL]
    IN  IF tags # NULL THEN [r3 EXCEPT !.tags = StripOrNull(tags)] ELSE r3

\* database.py:276-293: the row with the SET clauses applied; an argument that
\* is None (NULL here) leaves its columns alone
ApplySets(r, en, ru, example, tags) ==
    LET r1 == IF en # NULL THEN [r EXCEPT !.en = Strip(en), !.en_norm = Lower(Strip(en))] ELSE r
        r2 == IF ru # NULL THEN [r1 EXCEPT !.ru = Strip(ru), !.ru_norm = Lower(Strip(ru))] ELSE r1
        r3 == IF example # NULL THEN [r2 EXCEPT !.example = StripOrNull(example)] ELSE r2
    IN  IF tags # NULL THEN [r3 EXCEPT !.tags = StripOrNull(tags)] ELSE r3

\* variant of update_entry: a table without UNIQUE(user_id, en_norm)
update_entry_unchecked(E, user_id, entry_id, en, ru, example, tags) ==
    LET hit == {r \in E : r.user_id = user_id /\ r.id = entry_id}
    IN  IF en = NULL /\ ru = NULL /\ example = NULL /\ tags = NULL
        THEN [err |-> FALSE, n |-> 0, E |-> E]
        ELSE [err |-> FALSE, n |-> Cardinality(hit),
              E |-> {IF r \in hit THEN ApplySets(r, en, ru, example, tags) ELSE r : r \in E}]

\* database.py:260-305: err is TRUE when the UPDATE raises sqlite3.IntegrityError
\* (UNIQUE(user_id, en_norm), database.py:54), n is the rowcount, E the rows after
update_entry(E, user_id, entry_id, en, ru, example, tags) ==
    LET hit == {r \in E : r.user_id = user_id /\ r.id = entry_id}
    IN  IF en = NULL /\ ru = NULL /\ example = NULL /\ tags = NULL
        THEN [err |-> FALSE, n |-> 0, E |-> E]
        ELSE IF \E r \in hit : en # NULL /\ UniqueConflict(E, user_id, r.id, Lower(Strip(en)))
        THEN [err |-> TRUE, n |-> 0, E |-> E]
        ELSE [err |-> FALSE, n |-> Cardinality(hit),
              E |-> {IF r \in hit THEN ApplySets(r, en, ru, example, tags) ELSE r : r \in E}]

-----------------------------------------------------------------------------
(* bot.py: formatting, pagination, keyboards *)

W_MENU == <<"M","E","N","U">>
W_CANCEL == <<"C","A","N","C","E","L">>
W_NOP == <<"N","O","P">>
W_ALL == <<"A","L","L">>
W_LET == <<"L","E","T">>
W_FIND == <<"F","I","N","D">>
W_QUIZ == <<"Q","U","I","Z">>
W_EDIT == <<"E","D","I","T">>
W_SHOW == <<"S","H","O","W">>
W_NEXT == <<"N","E","X","T">>
W_DEL == <<"D","E","L">>
W_PICK == <<"P","I","C","K">>
W_FIELD == <<"F","I","E","L","D">>
W_HOME == <<"H","O","M","E">>
W_LIST == <<"L","I","S","T">>
W_LETTERS == <<"L","E","T","T","E","R","S">>
W_BULK == <<"B","U","L","K">>
W_DELETE == <<"D","E","L","E","T","E">>
F_en == <<"e","n">>
F_ru == <<"r","u">>
F_example == <<"e","x","a","m","p","l","e">>
F_tags == <<"t","a","g","s">>
BAR == <<"|">>

\* bot.py:76-77: ceil(total / PAGE_SIZE) is the quotient rounded up
pages(total) ==
    Max2(1, IF total % PAGE_SIZE = 0 THEN total \div PAGE_SIZE ELSE (total \div PAGE_SIZE) + 1)

\* variant of ClampPage: the upper limit is the page count, one past the last page
ClampPage_upto(page, tp) == Min2(Max2(page, 0), tp)

\* bot.py:202, 212, 223, 237, 253: page = min(max(page, 0), tp - 1)
ClampPage(page, tp) == Min2(Max2(page, 0), tp - 1)

\* bot.py:66-73: which of the two texts format_list returns
format_list(rows) == IF rows = <<>> THEN "list_empty" ELSE "list"

\* bot.py:127, 134: callback_data=f"{mode}|{extra}{page}"
PagerData(mode, extra, page) == mode \o BAR \o extra \o Str(page)

\* variant of kb_pager: the next button is built whatever the page is
kb_pager_open(mode, page, total_pages, extra) ==
    << IF page > 0 THEN <<"prev", PagerData(mode, extra, Max2(0, page - 1))>>
                   ELSE <<" ", W_NOP>>,
       <<Str(page + 1) \o <<"/">> \o Str(total_pages), W_NOP>>,
       <<"next", PagerData(mode, extra, page + 1)>> >>

\* bot.py:120-140: the three buttons of the pager row as <<text, callback_data>>;
\* the menu row attached below them is kb_menu_row
kb_pager(mode, page, total_pages, extra) ==
    LET left_page  == Max2(0, page - 1)
        right_page == Min2(total_pages - 1, page + 1)
    IN  << IF page > 0 THEN <<"prev", PagerData(mode, extra, left_page)>>
                       ELSE <<" ", W_NOP>>,
           <<Str(page + 1) \o <<"/">> \o Str(total_pages), W_NOP>>,
           IF page < total_pages - 1 THEN <<"next", PagerData(mode, extra, right_page)>>
                                     ELSE <<" ", W_NOP>> >>

\* bot.py:143-146 (kb_letters is attached below the pager)
kb_all(page, total_pages) == kb_pager(W_ALL, page, total_pages, <<>>)

\* bot.py:149-152
kb_letter(letter, page, total_pages) == kb_pager(W_LET, page, total_pages, letter \o BAR)

\* bot.py:155-157
kb_find(token, page, total_pages) == kb_pager(W_FIND, page, total_pages, token \o BAR)

\* bot.py:82-92, 97, 103-104: callback_data of the menu, menu-row and cancel buttons
MenuData(action) == W_MENU \o BAR \o action

\* bot.py:112: callback_data=f"LET|{L}|0"
LetterData(L) == W_LET \o BAR \o L \o BAR \o Str(0)

\* bot.py:163, 165, 166
QuizData(action, entry_id) == W_QUIZ \o BAR \o action \o BAR \o Str(entry_id)

\* variant of kb_quiz: the delete button is built like the next button
kb_quiz_del0(entry_id, revealed) ==
    (IF ~revealed THEN << <<"show", QuizData(W_SHOW, entry_id)>> >> ELSE <<>>)
    \o << <<"next", QuizData(W_NEXT, 0)>>, <<"del", QuizData(W_DEL, 0)>> >>

\* bot.py:160-169
kb_quiz(entry_id, revealed) ==
    (IF ~revealed THEN << <<"show", QuizData(W_SHOW, entry_id)>> >> ELSE <<>>)
    \o << <<"next", QuizData(W_NEXT, 0)>>, <<"del", QuizData(W_DEL, entry_id)>> >>

\* bot.py:178: callback_data=f"EDIT|PICK|{entry_id}"
PickData(entry_id) == W_EDIT \o BAR \o W_PICK \o BAR \o Str(entry_id)

\* bot.py:172-182: one button per row found
kb_edit_pick(rows) == [i \in 1..Len(rows) |-> <<"pick", PickData(rows[i][1])>>]

\* variant of FieldData: the id is written before the field
FieldData_swapped(field, entry_id) ==
    W_EDIT \o BAR \o W_FIELD \o BAR \o Str(entry_id) \o BAR \o field

\* bot.py:187-190: callback_data=f"EDIT|FIELD|{field}|{entry_id}"
FieldData(field, entry_id) == W_EDIT \o BAR \o W_FIELD \o BAR \o field \o BAR \o Str(entry_id)

\* bot.py:185-194
kb_edit_fields(entry_id) ==
    << <<"en", FieldData(F_en, entry_id)>>, <<"ru", FieldData(F_ru, entry_id)>>,
       <<"example", FieldData(F_example, entry_id)>>, <<"tags", FieldData(F_tags, entry_id)>>,
       <<"cancel", W_CANCEL>>, <<"menu", MenuData(W_HOME)>> >>

-----------------------------------------------------------------------------
(* The reply to one update *)

\* handler: the handler the dispatcher chose; data: the callback data or the
\* message text; ctl: the control the pressed button was built for (<<>> when
\* the data was not built by a keyboard of this bot); dec: the action and
\* parameters the handler decoded; fault: an exception left the handler;
\* ack: the text of call.answer ("none": no call.answer, "ok": no text);
\* op/msg: the message sent ("send") or edited in place ("edit");
\* total, tp, page, offset, rows, kb: the page or card shown and the LIMIT/OFFSET
\* query behind it; nq: the number of count and list queries made on the store;
\* saved, skipped, errors: the counts and the failed-line preview of a bulk add
Blank == [handler |-> "none", uid |-> 0, data |-> <<>>, ctl |-> <<>>, dec |-> <<>>,
          fault |-> FALSE, ack |-> "none", op |-> "none", msg |-> "none",
          total |-> 0, tp |-> 0, page |-> 0, offset |-> 0, rows |-> <<>>,
          kb |-> <<>>, nq |-> 0, saved |-> 0, skipped |-> 0, errors |-> <<>>,
          card |-> <<>>]

Reply(handler, uid, data, ctl) ==
    [Blank EXCEPT !.handler = handler, !.uid = uid, !.data = data, !.ctl = ctl]

\* no render of the user is suspended
NoFlight == [busy |-> FALSE, reply |-> Blank, seen |-> {}]

\* bot.py:199-205
send_all(o, E, user_id, page) ==
    LET total == count_all(E, user_id)
        tp    == pages(total)
        pg    == ClampPage(page, tp)
        rows  == list_entries(E, user_id, PAGE_SIZE, pg * PAGE_SIZE)
    IN  [o EXCEPT !.op = "send", !.msg = format_list(rows), !.total = total, !.tp = tp,
                  !.page = pg, !.offset = pg * PAGE_SIZE, !.rows = rows,
                  !.kb = kb_all(pg, tp), !.nq = 2]

\* variant of edit_all: the requested page is used as it comes
edit_all_unclamped(o, E, uid, page) ==
    LET total == count_all(E, uid)
        tp    == pages(total)
        rows  == list_entries(E, uid, PAGE_SIZE, page * PAGE_SIZE)
    IN  [o EXCEPT !.op = "edit", !.msg = format_list(rows), !.total = total, !.tp = tp,
                  !.page = page, !.offset = page * PAGE_SIZE, !.rows = rows,
                  !.kb = kb_all(page, tp), !.nq = 2, !.ack = "ok"]

\* bot.py:208-216
edit_all(o, E, uid, page) ==
    LET total == count_all(E, uid)
        tp    == pages(total)
        pg    == ClampPage(page, tp)
        rows  == list_entries(E, uid, PAGE_SIZE, pg * PAGE_SIZE)
    IN  [o EXCEPT !.op = "edit", !.msg = format_list(rows), !.total = total, !.tp = tp,
                  !.page = pg, !.offset = pg * PAGE_SIZE, !.rows = rows,
                  !.kb = kb_all(pg, tp), !.nq = 2, !.ack = "ok"]

\* bot.py:219-227
edit_letter(o, E, uid, letter, page) ==
    LET total == count_by_letter(E, uid, letter)
        tp    == pages(total)
        pg    == ClampPage(page, tp)
        rows  == list_by_letter(E, uid, letter, PAGE_SIZE, pg * PAGE_SIZE)
    IN  [o EXCEPT !.op = "edit", !.msg = format_list(rows), !.total = total, !.tp = tp,
                  !.page = pg, !.offset = pg * PAGE_SIZE, !.rows = rows,
                  !.kb = kb_letter(letter, pg, tp), !.nq = 2, !.ack = "ok"]

\* bot.py:235-241: the part of send_find after the token is cached
send_find(o, E, uid, token, q, page) ==
    LET total == count_find(E, uid, q)
        tp    == pages(total)
        pg    == ClampPage(page, tp)
        rows  == find_entries(E, uid, q, PAGE_SIZE, pg * PAGE_SIZE)
    IN  [o EXCEPT !.op = "send", !.msg = format_list(rows), !.total = total, !.tp = tp,
                  !.page = pg, !.offset = pg * PAGE_SIZE, !.rows = rows,
                  !.kb = kb_find(token, pg, tp), !.nq = 2]

\* variant of CachePut: one dictionary of tokens shared by all users
CachePut_shared(C, uid, token, q) ==
    LET inner(k) == IF k \in DOMAIN C THEN C[k] ELSE <<>>
    IN  [k \in Users |-> [t \in (DOMAIN inner(k)) \cup {token} |->
                             IF t = token THEN q ELSE inner(k)[t]]]

\* bot.py:233: FIND_CACHE.setdefault(uid, {})[token] = q
CachePut(C, uid, token, q) ==
    LET inner == IF uid \in DOMAIN C THEN C[uid] ELSE <<>>
        put   == [t \in (DOMAIN inner) \cup {token} |-> IF t = token THEN q ELSE inner[t]]
    IN  [k \in (DOMAIN C) \cup {uid} |-> IF k = uid THEN put ELSE C[k]]

\* variant of CacheGet: the token is looked up in the dictionaries of all users
CacheGet_any(C, uid, token) ==
    IF \E k \in DOMAIN C : token \in DOMAIN C[k]
    THEN C[CHOOSE k \in DOMAIN C : token \in DOMAIN C[k]][token]
    ELSE NULL

\* bot.py:246: FIND_CACHE.get(uid, {}).get(token)
CacheGet(C, uid, token) ==
    IF uid \in DOMAIN C /\ token \in DOMAIN C[uid] THEN C[uid][token] ELSE NULL

\* variant of edit_find: the matches are counted before the token is looked at
edit_find_eager(o, E, C, uid, token, page) ==
    LET q     == CacheGet(C, uid, token)
        total == count_find(E, uid, q)
        tp    == pages(total)
        pg    == ClampPage(page, tp)
        rows  == find_entries(E, uid, q, PAGE_SIZE, pg * PAGE_SIZE)
    IN  IF q = NULL \/ q = <<>>
        THEN [o EXCEPT !.ack = "search_expired", !.total = total, !.nq = 1]
        ELSE [o EXCEPT !.op = "edit", !.msg = format_list(rows), !.total = total, !.tp = tp,
                       !.page = pg, !.offset = pg * PAGE_SIZE, !.rows = rows,
                       !.kb = kb_find(token, pg, tp), !.nq = 2, !.ack = "ok"]

\* bot.py:244-258: "if not q" holds for None and for the empty string
edit_find(o, E, C, uid, token, page) ==
    LET q     == CacheGet(C, uid, token)
        total == count_find(E, uid, q)
        tp    == pages(total)
        pg    == ClampPage(page, tp)
        rows  == find_entries(E, uid, q, PAGE_SIZE, pg * PAGE_SIZE)
    IN  IF q = NULL \/ q = <<>>
        THEN [o EXCEPT !.ack = "search_expired"]
        ELSE [o EXCEPT !.op = "edit", !.msg = format_list(rows), !.total = total, !.tp = tp,
                       !.page = pg, !.offset = pg * PAGE_SIZE, !.rows = rows,
                       !.kb = kb_find(token, pg, tp), !.nq = 2, !.ack = "ok"]

-----------------------------------------------------------------------------
(* bot.py: the FSM storage of one user (aiogram FSMContext) *)

FsmIdle == [state |-> "idle", data |-> <<>>]

\* state.clear(): the state becomes None and the data {}
clear(f) == [state |-> "idle", data |-> <<>>]

\* state.set_state(s)
set_state(f, s) == [f EXCEPT !.state = s]

\* state.update_data(edit_entry_id=entry_id, edit_field=field)
update_data(f, entry_id, field) == [f EXCEPT !.data = <<entry_id, field>>]

\* variant of cb_menu_fsm: the branch sets the state without state.clear()
cb_menu_fsm_keep(f, action) ==
    IF action = W_FIND THEN set_state(f, "waiting_find")
    ELSE IF action = W_DELETE THEN set_state(f, "waiting_delete")
    ELSE IF action = W_EDIT THEN set_state(f, "waiting_edit_query")
    ELSE IF action = W_BULK THEN set_state(f, "waiting_bulk_add")
    ELSE f

\* bot.py:273-346: the storage after cb_menu: cleared, then set by the branch taken
cb_menu_fsm(f, action) ==
    LET c == clear(f)
    IN  IF action = W_FIND THEN set_state(c, "waiting_find")
        ELSE IF action = W_DELETE THEN set_state(c, "waiting_delete")
        ELSE IF action = W_EDIT THEN set_state(c, "waiting_edit_query")
        ELSE IF action = W_BULK THEN set_state(c, "waiting_bulk_add")
        ELSE c

\* bot.py:349-352
cb_cancel_fsm(f) == clear(f)

\* bot.py:539-540
cb_edit_field_fsm(f, entry_id, field) ==
    update_data(set_state(f, "waiting_edit_value"), entry_id, field)

\* variant of cb_edit_pick_fsm: the PICK branch calls state.clear()
cb_edit_pick_fsm_clear(f) == clear(f)

\* bot.py:519-533: the PICK branch of cb_edit makes no call on the state
cb_edit_pick_fsm(f) == f

\* variant of text_fsm: set_state(None) in place of clear(), the data stays
text_fsm_keep(f) == set_state(f, "idle")

\* bot.py:359, 368, 382, 402, 596, 673: the text handlers and /start clear first
text_fsm(f) == clear(f)

-----------------------------------------------------------------------------
(* bot.py:686-720: the dispatcher; the first registered handler whose filter *)
(* matches handles the update                                                *)

\* bot.py:699-708
Route(data) ==
    IF StartsWith(data, W_MENU \o BAR) THEN "cb_menu"
    ELSE IF data = W_CANCEL THEN "cb_cancel"
    ELSE IF data = W_NOP THEN "cb_nop"
    ELSE IF StartsWith(data, W_ALL \o BAR) THEN "cb_all"
    ELSE IF StartsWith(data, W_LET \o BAR) THEN "cb_letter"
    ELSE IF StartsWith(data, W_FIND \o BAR) THEN "cb_find"
    ELSE IF StartsWith(data, W_QUIZ \o BAR) THEN "cb_quiz"
    ELSE IF StartsWith(data, W_EDIT \o BAR) THEN "cb_edit"
    ELSE "none"

T_start == <<"/","s","t","a","r","t">>

\* variant of RouteText: on_text_add registered before the FSM handlers
RouteText_addfirst(text, state) ==
    IF text = T_start \/ StartsWith(text, T_start \o <<" ">>) THEN "cmd_start"
    ELSE "on_text_add"

\* bot.py:696, 711-718
RouteText(text, state) ==
    IF text = T_start \/ StartsWith(text, T_start \o <<" ">>) THEN "cmd_start"
    ELSE IF state = "waiting_find" THEN "on_find_query"
    ELSE IF state = "waiting_delete" THEN "on_delete_query"
    ELSE IF state = "waiting_edit_query" THEN "on_edit_query"
    ELSE IF state = "waiting_edit_value" THEN "on_edit_value"
    ELSE IF state = "waiting_bulk_add" THEN "on_bulk_add"
    ELSE "on_text_add"

\* an exception leaves the handler before it changed anything: aiogram logs
\* it, the callback is not answered, nothing is sent
Raised(o) == [o EXCEPT !.fault = TRUE]

-----------------------------------------------------------------------------
(* bot.py: callback handlers.  p is the press: p.data the callback data,     *)
(* p.ctl the control the button was built for                                *)

\* bot.py:51-63: the texts a card shows, in order: the primary, the secondary
\* when revealed, then the example and the tags that are not None or ""
format_item(row, reveal_ru) ==
    <<row[2]>>
    \o (IF reveal_ru THEN <<row[3]>> ELSE <<>>)
    \o (IF row[4] # NULL /\ row[4] # <<>> THEN <<row[4]>> ELSE <<>>)
    \o (IF row[5] # NULL /\ row[5] # <<>> THEN <<row[5]>> ELSE <<>>)

\* bot.py:326-327, 480-481, 508-509: a card with the translation hidden
quiz_card(o, row, op) ==
    [o EXCEPT !.op = op, !.msg = "card_hidden", !.rows = <<row>>,
              !.card = format_item(row, FALSE), !.kb = kb_quiz(row[1], FALSE)]

\* bot.py:275-346: what cb_menu answers and sends
cb_menu_reply(o, E, uid, action) ==
    IF action = W_HOME THEN {[o EXCEPT !.op = "send", !.msg = "menu"]}
    ELSE IF action = W_LIST THEN {send_all(o, E, uid, 0)}
    ELSE IF action = W_LETTERS THEN {[o EXCEPT !.op = "send", !.msg = "letters"]}
    ELSE IF action = W_FIND THEN {[o EXCEPT !.op = "send", !.msg = "ask_find"]}
    ELSE IF action = W_DELETE THEN {[o EXCEPT !.op = "send", !.msg = "ask_delete"]}
    ELSE IF action = W_EDIT THEN {[o EXCEPT !.op = "send", !.msg = "ask_edit"]}
    ELSE IF action = W_QUIZ
         THEN IF get_random_entry(E, uid) = {}
              THEN {[o EXCEPT !.op = "send", !.msg = "quiz_empty"]}
              ELSE {quiz_card(o, row, "send") : row \in get_random_entry(E, uid)}
    ELSE IF action = W_BULK THEN {[o EXCEPT !.op = "send", !.msg = "ask_bulk"]}
    ELSE {o}

\* bot.py:269-346
cb_menu(u, p) ==
    /\ Route(p.data) = "cb_menu"
    /\ LET action == Split(p.data, "|", 1)[2]
           o == [Reply("cb_menu", u, p.data, p.ctl) EXCEPT !.dec = <<W_MENU, action>>,
                                                          !.ack = "ok"]
       IN  /\ fsm' = [fsm EXCEPT ![u] = cb_menu_fsm(fsm[u], action)]
           /\ out' \in cb_menu_reply(o, entries, u, action)
    /\ UNCHANGED <<entries, nextId, FIND_CACHE, issued, inflight>>

\* bot.py:349-352
cb_cancel(u, p) ==
    /\ Route(p.data) = "cb_cancel"
    /\ fsm' = [fsm EXCEPT ![u] = cb_cancel_fsm(fsm[u])]
    /\ out' = [Reply("cb_cancel", u, p.data, p.ctl) EXCEPT
                  !.dec = <<W_CANCEL>>, !.ack = "cancelled", !.op = "send", !.msg = "menu"]
    /\ UNCHANGED <<entries, nextId, FIND_CACHE, issued, inflight>>

\* bot.py:452-453
cb_nop(u, p) ==
    /\ Route(p.data) = "cb_nop"
    /\ out' = [Reply("cb_nop", u, p.data, p.ctl) EXCEPT !.dec = <<W_NOP>>, !.ack = "ok"]
    /\ UNCHANGED <<entries, nextId, fsm, FIND_CACHE, issued, inflight>>

\* bot.py:456-458
cb_all_reply(o, E, uid, data) ==
    LET parts  == Split(data, "|", 1)
        page_s == parts[2]
    IN  IF ~IsInt(page_s) THEN Raised(o)
        ELSE edit_all([o EXCEPT !.dec = <<W_ALL, IntOf(page_s)>>], E, uid, IntOf(page_s))

cb_all(u, p) ==
    /\ Route(p.data) = "cb_all"
    /\ out' = cb_all_reply(Reply("cb_all", u, p.data, p.ctl), entries, u, p.data)
    /\ UNCHANGED <<entries, nextId, fsm, FIND_CACHE, issued, inflight>>

\* bot.py:461-463: unpacking two parts into three names raises ValueError
cb_letter_reply(o, E, uid, data) ==
    LET parts == Split(data, "|", 2)
    IN  IF Len(parts) # 3 THEN Raised(o)
        ELSE IF ~IsInt(parts[3]) THEN Raised(o)
        ELSE edit_letter([o EXCEPT !.dec = <<W_LET, parts[2], IntOf(parts[3])>>],
                         E, uid, parts[2], IntOf(parts[3]))

cb_letter(u, p) ==
    /\ Route(p.data) = "cb_letter"
    /\ out' = cb_letter_reply(Reply("cb_letter", u, p.data, p.ctl), entries, u, p.data)
    /\ UNCHANGED <<entries, nextId, fsm, FIND_CACHE, issued, inflight>>

\* bot.py:466-468
cb_find_reply(o, E, C, uid, data) ==
    LET parts == Split(data, "|", 2)
    IN  IF Len(parts) # 3 THEN Raised(o)
        ELSE IF ~IsInt(parts[3]) THEN Raised(o)
        ELSE edit_find([o EXCEPT !.dec = <<W_FIND, parts[2], IntOf(parts[3])>>],
                       E, C, uid, parts[2], IntOf(parts[3]))

cb_find(u, p) ==
    /\ Route(p.data) = "cb_find"
    /\ out' = cb_find_reply(Reply("cb_find", u, p.data, p.ctl), entries, FIND_CACHE, u, p.data)
    /\ UNCHANGED <<entries, nextId, fsm, FIND_CACHE, issued, inflight>>

\* bot.py:475-483
quiz_next(o, E, uid) ==
    IF get_random_entry(E, uid) = {}
    THEN {[o EXCEPT !.ack = "quiz_empty"]}
    ELSE {[quiz_card(o, row, "edit") EXCEPT !.ack = "ok"] : row \in get_random_entry(E, uid)}

\* bot.py:487-495
quiz_show(o, E, uid, entry_id) ==
    LET row == get_entry_by_id(E, uid, entry_id)
    IN  IF row = NoRow THEN [o EXCEPT !.ack = "card_not_found"]
        ELSE [o EXCEPT !.op = "edit", !.msg = "card_revealed", !.rows = <<row>>,
                       !.card = format_item(row, TRUE),
                       !.kb = kb_quiz(entry_id, TRUE), !.ack = "ok"]

\* variant of quiz_del: the next card is drawn before the DELETE
quiz_del_early(o, E, E2, uid) ==
    LET a == [o EXCEPT !.ack = IF E2 # E THEN "deleted" ELSE "not_found"]
    IN  IF get_random_entry(E, uid) = {}
        THEN {[a EXCEPT !.op = "edit", !.msg = "quiz_empty"]}
        ELSE {quiz_card(a, row, "edit") : row \in get_random_entry(E, uid)}

\* bot.py:497-510: E is the store before, E2 the store after delete_by_id
quiz_del(o, E, E2, uid) ==
    LET a == [o EXCEPT !.ack = IF E2 # E THEN "deleted" ELSE "not_found"]
    IN  IF get_random_entry(E2, uid) = {}
        THEN {[a EXCEPT !.op = "edit", !.msg = "quiz_empty"]}
        ELSE {quiz_card(a, row, "edit") : row \in get_random_entry(E2, uid)}

\* bot.py:471-510
cb_quiz(u, p) ==
    /\ Route(p.data) = "cb_quiz"
    /\ LET parts == Split(p.data, "|", 2)
           o == Reply("cb_quiz", u, p.data, p.ctl)
       IN  IF Len(parts) # 3
           THEN out' = Raised(o) /\ entries' = entries
           ELSE IF parts[2] = W_NEXT
           THEN /\ out' \in quiz_next([o EXCEPT !.dec = <<W_QUIZ, W_NEXT>>], entries, u)
                /\ entries' = entries
           ELSE IF ~IsInt(parts[3])
           THEN out' = Raised(o) /\ entries' = entries
           ELSE LET entry_id == IntOf(parts[3])
                    d == [o EXCEPT !.dec = <<W_QUIZ, parts[2], entry_id>>]
                IN  IF parts[2] = W_SHOW
                    THEN out' = quiz_show(d, entries, u, entry_id) /\ entries' = entries
                    ELSE IF parts[2] = W_DEL
                    THEN /\ entries' = delete_by_id(entries, u, entry_id)
                         /\ out' \in quiz_del(d, entries, delete_by_id(entries, u, entry_id), u)
                    ELSE out' = d /\ entries' = entries
    /\ UNCHANGED <<nextId, fsm, FIND_CACHE, issued, inflight>>

\* variant of edit_pick: the field buttons are sent without reading the row
edit_pick_blind(o, E, uid, entry_id) ==
    [o EXCEPT !.op = "send", !.msg = "edit_fields",
              !.kb = kb_edit_fields(entry_id), !.ack = "ok"]

\* bot.py:520-533
edit_pick(o, E, uid, entry_id) ==
    LET row == get_entry_by_id(E, uid, entry_id)
    IN  IF row = NoRow THEN [o EXCEPT !.ack = "entry_not_found"]
        ELSE [o EXCEPT !.op = "send", !.msg = "edit_fields", !.rows = <<row>>,
                       !.kb = kb_edit_fields(entry_id), !.ack = "ok"]

\* bot.py:513-553: parts[2] or parts[3] out of range raises IndexError
cb_edit(u, p) ==
    /\ Route(p.data) = "cb_edit"
    /\ LET parts == Split(p.data, "|", -1)
           action == parts[2]
           o == Reply("cb_edit", u, p.data, p.ctl)
       IN  IF action = W_PICK
           THEN /\ out' = IF Len(parts) < 3 THEN Raised(o)
                          ELSE IF ~IsInt(parts[3]) THEN Raised(o)
                          ELSE edit_pick([o EXCEPT !.dec = <<W_EDIT, W_PICK, IntOf(parts[3])>>],
                                         entries, u, IntOf(parts[3]))
                /\ fsm' = IF Len(parts) < 3 \/ ~IsInt(parts[Min2(3, Len(parts))]) THEN fsm
                          ELSE [fsm EXCEPT ![u] = cb_edit_pick_fsm(fsm[u])]
           ELSE IF action = W_FIELD
           THEN IF Len(parts) < 4 \/ ~IsInt(parts[Min2(4, Len(parts))])
                THEN out' = Raised(o) /\ fsm' = fsm
                ELSE /\ fsm' = [fsm EXCEPT ![u] =
                                   cb_edit_field_fsm(fsm[u], IntOf(parts[4]), parts[3])]
                     /\ out' = [o EXCEPT !.dec = <<W_EDIT, W_FIELD, parts[3], IntOf(parts[4])>>,
                                         !.op = "send", !.msg = "ask_value", !.ack = "ok"]
           ELSE out' = [o EXCEPT !.ack = "ok"] /\ fsm' = fsm
    /\ UNCHANGED <<entries, nextId, FIND_CACHE, issued, inflight>>

-----------------------------------------------------------------------------
(* bot.py: bulk parsing *)

DigitSet == {DIGITS[i] : i \in 1..10}

\* re.sub(r"^\d+\s*[).\-]\s*", "", line): a leading run of digits, white space,
\* one of ")", ".", "-" and white space is removed; a line without it is kept
NumberingStripped(line) ==
    LET afterDigits == LStripSet(line, DigitSet)
        afterSpace  == LStripSet(afterDigits, {" ", "\n"})
    IN  IF afterDigits = line THEN line
        ELSE IF afterSpace = <<>> \/ Head(afterSpace) \notin {")", ".", "-"} THEN line
        ELSE LStripSet(Tail(afterSpace), {" ", "\n"})

\* position of the first occurrence of sub in s, 0 when there is none
Find(s, sub) ==
    IF Contains(s, sub)
    THEN CHOOSE i \in 1..Len(s) : /\ SubSeq(s, i, i + Len(sub) - 1) = sub
                                  /\ \A j \in 1..(i-1) : SubSeq(s, j, j + Len(sub) - 1) # sub
    ELSE 0

Item(en, ru, example, tags) ==
    [err |-> FALSE, en |-> en, ru |-> ru, example |-> example, tags |-> tags, raw |-> <<>>]

ErrorItem(raw) ==
    [err |-> TRUE, en |-> <<>>, ru |-> <<>>, example |-> NULL, tags |-> NULL, raw |-> raw]

\* bot.py:561-589 for one line; <<>> for a blank line, else <<item>>
parse_bulk_line(raw) ==
    LET line0  == Strip(raw)
        line   == NumberingStripped(Strip(LStripSet(line0, {"BULLET", "*", "-"})))
        parsed == parse_entry(line)
        i1     == Find(line, <<"EMDASH">>)
        en1    == Strip(SubSeq(line, 1, i1 - 1))
        ru1    == Strip(SubSeq(line, i1 + 1, Len(line)))
        i2     == Find(line, <<" ", "-", " ">>)
        en2    == Strip(SubSeq(line, 1, i2 - 1))
        ru2    == Strip(SubSeq(line, i2 + 3, Len(line)))
    IN  IF line0 = <<>> THEN <<>>
        ELSE IF parsed.ok THEN <<Item(parsed.en, parsed.ru, parsed.example, parsed.tags)>>
        ELSE IF i1 # 0 /\ en1 # <<>> /\ ru1 # <<>> THEN <<Item(en1, ru1, NULL, NULL)>>
        ELSE IF i2 # 0 /\ en2 # <<>> /\ ru2 # <<>> THEN <<Item(en2, ru2, NULL, NULL)>>
        ELSE <<ErrorItem(raw)>>

RECURSIVE ConcatMap(_)
ConcatMap(lines) ==
    IF lines = <<>> THEN <<>> ELSE parse_bulk_line(Head(lines)) \o ConcatMap(Tail(lines))

\* bot.py:558-591; text.splitlines() cuts at the line breaks
parse_bulk_lines(text) == ConcatMap(Split(text, "\n", -1))

\* variant of BulkStore: the loop ends at the first line that does not parse
RECURSIVE BulkStore_stop(_, _, _, _)
BulkStore_stop(E, nid, uid, items) ==
    IF items = <<>> THEN E
    ELSE IF Head(items).err THEN E
    ELSE BulkStore_stop(upsert_entry(E, nid, uid, Head(items).en, Head(items).ru,
                                     Head(items).example, Head(items).tags),
                        nid + 1, uid, Tail(items))

\* bot.py:612-629: the store after the items are upserted in order; every
\* upsert_entry call takes the next rowid
RECURSIVE BulkStore(_, _, _, _)
BulkStore(E, nid, uid, items) ==
    IF items = <<>> THEN E
    ELSE IF Head(items).err THEN BulkStore(E, nid, uid, Tail(items))
    ELSE BulkStore(upsert_entry(E, nid, uid, Head(items).en, Head(items).ru,
                                Head(items).example, Head(items).tags),
                   nid + 1, uid, Tail(items))

Good(items) == SelectSeq(items, LAMBDA it : ~it.err)

Bad(items) == SelectSeq(items, LAMBDA it : it.err)

\* bot.py:638: errors[:10]
Preview(items) == [i \in 1..Min2(10, Len(Bad(items))) |-> Bad(items)[i].raw]

-----------------------------------------------------------------------------
(* bot.py: text handlers *)

\* uuid.uuid4().hex[:8] (bot.py:232): the tokens the model draws
Tokens == { <<"0","a","1","b","2","c","3","d">>, <<"f","f","0","0","f","f","0","0">> }

\* bot.py:672-681
cmd_start(u, text) ==
    /\ RouteText(text, fsm[u].state) = "cmd_start"
    /\ fsm' = [fsm EXCEPT ![u] = text_fsm(fsm[u])]
    /\ out' = [Reply("cmd_start", u, text, <<>>) EXCEPT !.op = "send", !.msg = "start"]
    /\ UNCHANGED <<entries, nextId, FIND_CACHE, issued, inflight>>

\* bot.py:357-363, 230-241; toks are the values uuid4 may give
on_find_query(u, text, toks) ==
    /\ RouteText(text, fsm[u].state) = "on_find_query"
    /\ fsm' = [fsm EXCEPT ![u] = text_fsm(fsm[u])]
    /\ LET q == Strip(text)
           o == Reply("on_find_query", u, text, <<>>)
       IN  IF q = <<>>
           THEN /\ out' = [o EXCEPT !.op = "send", !.msg = "empty_query"]
                /\ UNCHANGED <<FIND_CACHE, issued>>
           ELSE \E token \in toks :
                /\ FIND_CACHE' = CachePut(FIND_CACHE, u, token, q)
                /\ issued' = [issued EXCEPT ![u][token] = q]
                /\ out' = send_find(o, entries, u, token, q, 0)
    /\ UNCHANGED <<entries, nextId, inflight>>

\* bot.py:366-377
on_delete_query(u, text) ==
    /\ RouteText(text, fsm[u].state) = "on_delete_query"
    /\ fsm' = [fsm EXCEPT ![u] = text_fsm(fsm[u])]
    /\ LET en == Strip(text)
           o  == Reply("on_delete_query", u, text, <<>>)
       IN  IF en = <<>>
           THEN out' = [o EXCEPT !.op = "send", !.msg = "empty_input"] /\ entries' = entries
           ELSE /\ entries' = delete_by_en(entries, u, en)
                /\ out' = [o EXCEPT !.op = "send",
                              !.msg = IF delete_by_en(entries, u, en) # entries
                                      THEN "deleted" ELSE "not_found"]
    /\ UNCHANGED <<nextId, FIND_CACHE, issued, inflight>>

\* bot.py:380-393
on_edit_query(u, text) ==
    /\ RouteText(text, fsm[u].state) = "on_edit_query"
    /\ fsm' = [fsm EXCEPT ![u] = text_fsm(fsm[u])]
    /\ LET q    == Strip(text)
           o    == Reply("on_edit_query", u, text, <<>>)
           rows == search_entries_both(entries, u, q, 10)
       IN  out' = IF q = <<>> THEN [o EXCEPT !.op = "send", !.msg = "empty_query"]
                  ELSE IF rows = <<>> THEN [o EXCEPT !.op = "send", !.msg = "nothing_found"]
                  ELSE [o EXCEPT !.op = "send", !.msg = "pick", !.rows = rows,
                                 !.kb = kb_edit_pick(rows)]
    /\ UNCHANGED <<entries, nextId, FIND_CACHE, issued, inflight>>

\* variant of edit_update: "-" is passed on as it is
edit_update_literal(E, uid, entry_id, field, text) ==
    LET value == Strip(text)
    IN  update_entry(E, uid, entry_id,
                     IF field = F_en THEN value ELSE NULL,
                     IF field = F_ru THEN value ELSE NULL,
                     IF field = F_example THEN value ELSE NULL,
                     IF field = F_tags THEN value ELSE NULL)

\* bot.py:409-420: the update_entry call on_edit_value makes; "-" stands for ""
edit_update(E, uid, entry_id, field, text) ==
    LET value == IF Strip(text) = <<"-">> THEN <<>> ELSE Strip(text)
    IN  update_entry(E, uid, entry_id,
                     IF field = F_en THEN value ELSE NULL,
                     IF field = F_ru THEN value ELSE NULL,
                     IF field = F_example THEN value ELSE NULL,
                     IF field = F_tags THEN value ELSE NULL)

\* bot.py:396-447
on_edit_value(u, text) ==
    /\ RouteText(text, fsm[u].state) = "on_edit_value"
    /\ fsm' = [fsm EXCEPT ![u] = text_fsm(fsm[u])]
    /\ LET data == fsm[u].data
           o    == Reply("on_edit_value", u, text, <<>>)
       IN  IF data = <<>> \/ data[1] = 0 \/ data[2] = <<>>
           THEN out' = [o EXCEPT !.op = "send", !.msg = "edit_lost"] /\ entries' = entries
           ELSE IF data[2] \notin {F_en, F_ru, F_example, F_tags}
           THEN out' = [o EXCEPT !.op = "send", !.msg = "unknown_field"] /\ entries' = entries
           ELSE LET res == edit_update(entries, u, data[1], data[2], text)
                    row == get_entry_by_id(res.E, u, data[1])
                IN  /\ entries' = res.E
                    /\ out' = IF res.err
                              THEN [o EXCEPT !.op = "send",
                                       !.msg = IF data[2] = F_en THEN "already_exists"
                                               ELSE "constraint_failed"]
                              ELSE IF res.n = 0
                              THEN [o EXCEPT !.op = "send", !.msg = "update_failed"]
                              ELSE IF row = NoRow
                              THEN [o EXCEPT !.op = "send", !.msg = "updated_not_found"]
                              ELSE [o EXCEPT !.op = "send", !.msg = "updated", !.rows = <<row>>]
    /\ UNCHANGED <<nextId, FIND_CACHE, issued, inflight>>

\* bot.py:594-640; upsert_entry raises nothing for texts, so every parsed item
\* is saved
on_bulk_add(u, text) ==
    /\ RouteText(text, fsm[u].state) = "on_bulk_add"
    /\ LET items == parse_bulk_lines(Strip(text))
           o     == Reply("on_bulk_add", u, text, <<>>)
       IN  /\ nextId + Len(Good(items)) <= MaxId + 1
           /\ fsm' = [fsm EXCEPT ![u] = text_fsm(fsm[u])]
           /\ IF Strip(text) = <<>>
              THEN /\ out' = [o EXCEPT !.op = "send", !.msg = "bulk_empty"]
                   /\ UNCHANGED <<entries, nextId>>
              ELSE /\ entries' = BulkStore(entries, nextId, u, items)
                   /\ nextId' = nextId + Len(Good(items))
                   /\ out' = [o EXCEPT !.op = "send", !.msg = "bulk_done",
                                 !.saved = Len(Good(items)), !.skipped = Len(Bad(items)),
                                 !.errors = Preview(items)]
    /\ UNCHANGED <<FIND_CACHE, issued, inflight>>

\* bot.py:643-667
on_text_add(u, text) ==
    /\ RouteText(text, fsm[u].state) = "on_text_add"
    /\ LET parsed == parse_entry(text)
           o      == Reply("on_text_add", u, text, <<>>)
       IN  IF ~parsed.ok
           THEN /\ out' = [o EXCEPT !.op = "send", !.msg = "bad_format"]
                /\ UNCHANGED <<entries, nextId>>
           ELSE /\ nextId <= MaxId
                /\ entries' = upsert_entry(entries, nextId, u, parsed.en, parsed.ru,
                                           parsed.example, parsed.tags)
                /\ nextId' = nextId + 1
                /\ out' = [o EXCEPT !.op = "send", !.msg = "saved", !.saved = 1,
                              !.rows = << <<0, parsed.en, parsed.ru,
                                            parsed.example, parsed.tags>> >>]
    /\ UNCHANGED <<fsm, FIND_CACHE, issued, inflight>>

\* bot.py:32, 690-693: a process start: the token cache and the in-memory FSM
\* storage are empty, the database file is kept
Restart ==
    /\ FIND_CACHE' = <<>>
    /\ issued' = [u \in Users |-> [t \in Tokens |->
                      IF issued[u][t] = NULL THEN NULL ELSE LOST]]
    /\ fsm' = [u \in Users |-> FsmIdle]
    /\ out' = [Blank EXCEPT !.handler = "restart"]
    /\ inflight' = [u \in Users |-> NoFlight]
    /\ UNCHANGED <<entries, nextId>>

-----------------------------------------------------------------------------
(* Page renders as coroutines.  The event loop runs one coroutine at a time *)
(* and switches only at an await.  database.py opens, queries and closes    *)
(* its connection synchronously, so send_all/edit_all (bot.py:199-216),     *)
(* edit_letter (219-229) and send_find/edit_find (232-258) make their count *)
(* query and their list query back to back and first suspend in the await   *)
(* that sends the page.                                                     *)

\* bot.py:456-468 with 208-214, 219-227, 244-256: cb_all, cb_letter or cb_find
\* from the update to the await of edit_text (or of call.answer): the callback
\* data is decoded and the page is computed from the store as it is now
render_reply(u, p) ==
    IF Route(p.data) = "cb_all"
    THEN cb_all_reply(Reply("cb_all", u, p.data, p.ctl), entries, u, p.data)
    ELSE IF Route(p.data) = "cb_letter"
    THEN cb_letter_reply(Reply("cb_letter", u, p.data, p.ctl), entries, u, p.data)
    ELSE cb_find_reply(Reply("cb_find", u, p.data, p.ctl), entries, FIND_CACHE, u, p.data)

render_begin(u, p) ==
    /\ Route(p.data) \in {"cb_all", "cb_letter", "cb_find"}
    /\ ~inflight[u].busy
    /\ inflight' = [inflight EXCEPT ![u] =
                        [busy |-> TRUE, reply |-> render_reply(u, p), seen |-> entries]]
    /\ UNCHANGED <<entries, nextId, fsm, FIND_CACHE, issued, out>>

\* a send that ran the list query again when the await resumes
Resume_requery(item, E) ==
    IF item.reply.nq = 2 /\ item.reply.handler = "cb_all"
    THEN [item.reply EXCEPT
             !.rows = list_entries(E, item.reply.uid, PAGE_SIZE, item.reply.offset)]
    ELSE item.reply

\* bot.py:215-216, 228-229, 257-258: edit_text sends the text and the keyboard
\* built before the await, call.answer follows; neither reads the store
Resume(item, E) == item.reply

\* the awaits of the suspended render complete and the page reaches the user
render_end(u) ==
    /\ inflight[u].busy
    /\ out' = Resume(inflight[u], entries)
    /\ inflight' = [inflight EXCEPT ![u] = NoFlight]
    /\ UNCHANGED <<entries, nextId, fsm, FIND_CACHE, issued>>

-----------------------------------------------------------------------------
(* The updates the users send *)

\* the callback data the keyboard builders put on the button of control c
EncodeCtl(c) ==
    IF c[1] = W_ALL THEN PagerData(W_ALL, <<>>, c[2])
    ELSE IF c[1] = W_LET THEN PagerData(W_LET, c[2] \o BAR, c[3])
    ELSE IF c[1] = W_FIND THEN PagerData(W_FIND, c[2] \o BAR, c[3])
    ELSE IF c[1] = W_QUIZ /\ c[2] = W_NEXT THEN QuizData(W_NEXT, 0)
    ELSE IF c[1] = W_QUIZ THEN QuizData(c[2], c[3])
    ELSE IF c[1] = W_EDIT /\ c[2] = W_PICK THEN PickData(c[3])
    ELSE IF c[1] = W_EDIT THEN FieldData(c[3], c[4])
    ELSE IF c[1] = W_MENU THEN MenuData(c[2])
    ELSE c[1]

MenuActions == {W_HOME, W_LIST, W_LETTERS, W_BULK, W_FIND, W_EDIT, W_DELETE, W_QUIZ}

Fields == {F_en, F_ru, F_example, F_tags}

\* the controls the keyboards can carry for pages pgs, letters ls, tokens ts
\* and record ids ids
ControlsOf(pgs, ls, ts, ids) ==
    {<<W_ALL, n>> : n \in pgs}
    \cup {<<W_LET, l, n>> : l \in ls, n \in pgs}
    \cup {<<W_FIND, t, n>> : t \in ts, n \in pgs}
    \cup {<<W_QUIZ, a, i>> : a \in {W_SHOW, W_DEL}, i \in ids}
    \cup {<<W_QUIZ, W_NEXT>>}
    \cup {<<W_EDIT, W_PICK, i>> : i \in ids}
    \cup {<<W_EDIT, W_FIELD, f, i>> : f \in Fields, i \in ids}
    \cup {<<W_MENU, a>> : a \in MenuActions}
    \cup {<<W_CANCEL>>, <<W_NOP>>}

PressesOf(ctls, raw) ==
    {[data |-> EncodeCtl(c), ctl |-> c] : c \in ctls} \cup {[data |-> d, ctl |-> <<>>] : d \in raw}

\* callback data with a known prefix and parameters missing or not integers
MalformedData ==
    { W_ALL \o BAR \o <<"x">>,
      W_LET \o BAR \o <<"A">>,
      W_FIND \o BAR \o <<"0","a","1","b","2","c","3","d">>,
      W_QUIZ \o BAR \o W_SHOW,
      W_QUIZ \o BAR \o W_DEL \o BAR \o <<"x">>,
      W_EDIT \o BAR \o W_PICK,
      W_EDIT \o BAR \o W_FIELD \o BAR \o F_en }

\* callback data of buttons shown earlier, or made up, with integer parameters
StaleData == { W_ALL \o BAR \o <<"-","1">>, W_ALL \o BAR \o <<"7">> }

T_cat_kot == <<"c","a","t"," ","-"," ","k","o","t">>
T_Cat_kit == <<"C","a","t"," ","EMDASH"," ","k","i","t"," ","|"," ","e","x",":"," ","A","b">>
T_cat == <<"c","a","t">>
T_Dog == <<"D","o","g">>
T_a == <<"a">>
T_bulk == <<"1",".","c","a","t"," ","-"," ","k","o","t","\n","z","z","\n",
            "BULLET"," ","d","o","g"," ","EMDASH"," ","p","e","s">>

TOK1 == <<"0","a","1","b","2","c","3","d">>
TOK2 == <<"f","f","0","0","f","f","0","0">>

\* a stored row
Rec(id, uid, en, ru, example, tags) ==
    [id |-> id, user_id |-> uid, en |-> en, en_norm |-> Lower(en), ru |-> ru,
     ru_norm |-> Lower(ru), example |-> example, tags |-> tags]

-----------------------------------------------------------------------------
(* Spec: every handler, two users, a small dictionary *)

\* both users have added "cat - kot"
Init ==
    /\ entries = {Rec(1, 1, T_cat, <<"k","o","t">>, NULL, NULL),
                  Rec(2, 2, T_cat, <<"k","o","t">>, NULL, NULL)}
    /\ nextId = 3
    /\ fsm = [u \in Users |-> FsmIdle]
    /\ FIND_CACHE = <<>>
    /\ issued = [u \in Users |-> [t \in Tokens |-> NULL]]
    /\ out = Blank
    /\ inflight = [u \in Users |-> NoFlight]

FlowPresses ==
    PressesOf({<<W_MENU, a>> : a \in MenuActions}
              \cup {<<W_CANCEL>>, <<W_NOP>>, <<W_EDIT, W_FIELD, F_example, 1>>,
                    <<W_EDIT, W_PICK, 1>>,
                    <<W_ALL, 0>>, <<W_LET, <<"C">>, 0>>, <<W_FIND, TOK1, 0>>,
                    <<W_QUIZ, W_NEXT>>},
              {})

FlowTexts == {T_start, T_cat}

Next ==
    \/ \E u \in Users, p \in FlowPresses :
          \/ cb_menu(u, p)
          \/ cb_cancel(u, p)
          \/ cb_nop(u, p)
          \/ cb_all(u, p)
          \/ cb_letter(u, p)
          \/ cb_find(u, p)
          \/ cb_quiz(u, p)
          \/ cb_edit(u, p)
    \/ \E u \in Users, t \in FlowTexts :
          \/ cmd_start(u, t)
          \/ on_find_query(u, t, {TOK1})
          \/ on_delete_query(u, t)
          \/ on_edit_query(u, t)
          \/ on_edit_value(u, t)
          \/ on_bulk_add(u, t)
          \/ on_text_add(u, t)
    \/ Restart

Spec == Init /\ [][Next]_vars

-----------------------------------------------------------------------------
(* SpecPager: the paged views over dictionaries of several sizes *)

\* the i-th word of a generated dictionary, i from 0: three letters, the first
\* a capital "A" or "B"
Word(i) ==
    <<IF i % 4 = 3 THEN "B" ELSE "A", LOWERS[(i \div 6) + 1], LOWERS[(i % 6) + 1]>>

\* user 1 has added n words, then user 2 one word
BigStore(n) ==
    {Rec(i + 1, 1, Word(i), <<"r","u">>, NULL, NULL) : i \in 0..(n - 1)}
    \cup {Rec(n + 1, 2, T_cat, <<"k","o","t">>, NULL, NULL)}

\* the sizes of user 1's dictionary: empty, one page, just below, at and above
\* a multiple of PAGE_SIZE
PagerSizes == {0, 1, 14, 15, 16, 31}

InitPager ==
    /\ \E n \in PagerSizes : entries = BigStore(n) /\ nextId = n + 2
    /\ fsm = [u \in Users |-> FsmIdle]
    /\ FIND_CACHE = <<>>
    /\ issued = [u \in Users |-> [t \in Tokens |-> NULL]]
    /\ out = Blank
    /\ inflight = [u \in Users |-> NoFlight]

\* pages requested by buttons of views shown for a larger dictionary
PagerPages == {0, 1, 2, 7}

\* the buttons pressed, and callback data with a negative page that no
\* keyboard of the bot carries
PagerPresses ==
    PressesOf({<<W_MENU, W_LIST>>, <<W_MENU, W_FIND>>}
              \cup {<<W_ALL, n>> : n \in PagerPages}
              \cup {<<W_LET, <<"A">>, n>> : n \in PagerPages}
              \cup {<<W_LET, <<"B">>, 0>>}
              \cup {<<W_FIND, TOK1, n>> : n \in PagerPages},
              {PagerData(W_ALL, <<>>, -1), PagerData(W_LET, <<"A">> \o BAR, -1),
               PagerData(W_FIND, TOK1 \o BAR, -1)})

\* user 1 browses; user 2's word is in the store
NextPager ==
    \/ \E p \in PagerPresses :
          \/ cb_menu(1, p)
          \/ cb_all(1, p)
          \/ cb_letter(1, p)
          \/ cb_find(1, p)
    \/ on_find_query(1, T_a, {TOK1})

SpecPager == InitPager /\ [][NextPager]_vars

\* the largest record count the page-count formula is evaluated for
MaxTotal == 50

\* tp is the least page count, at least 1, whose pages hold total records
IsPageCount(total, tp) ==
    /\ tp >= 1
    /\ tp * PAGE_SIZE >= total
    /\ tp > 1 => (tp - 1) * PAGE_SIZE < total

\* C1: the page count is max(1, ceil(total / PAGE_SIZE)); every rendered view
\* shows a page within 0 .. pages - 1, the LIMIT/OFFSET query is made for that
\* page, and the indicator reads <page + 1>/<pages>
C1_PageInRange ==
    /\ \A t \in 0..MaxTotal : IsPageCount(t, pages(t))
    /\ out.nq = 2
       => /\ IsPageCount(out.total, out.tp)
          /\ out.page \in 0..(out.tp - 1)
          /\ out.offset = out.page * PAGE_SIZE
          /\ out.kb[2][1] = Str(out.page + 1) \o <<"/">> \o Str(out.tp)

\* page 7 of a list that has three pages is shown as the last page, 3/3
C1_Witness ==
    /\ out.handler = "cb_all" /\ out.dec = <<W_ALL, 7>>
    /\ out.total = 31 /\ out.tp = 3 /\ out.page = 2 /\ out.offset = 30
    /\ Len(out.rows) = 1

\* the page a pager button leads to: the last part of its callback data
TargetPage(button) ==
    LET parts == Split(button[2], "|", -1) IN IntOf(parts[Len(parts)])

\* the handler that renders the mode of the view o
PagerHandler(o) ==
    IF o.handler = "cb_menu" THEN "cb_all"
    ELSE IF o.handler = "on_find_query" THEN "cb_find"
    ELSE o.handler

\* C19: the pager row of every rendered view has three buttons: the previous
\* slot, the indicator, the next slot.  The previous slot leads to page - 1 of
\* the same mode exactly when page > 0 and is a NOP otherwise; the next slot
\* leads to page + 1 exactly when page < pages - 1 and is a NOP otherwise; an
\* active slot leads to a page within 0 .. pages - 1.  With 16 records page 0
\* shows 15 of them with next active, page 1 shows one with next a NOP and
\* previous active
C19_PagerRow ==
    out.nq = 2
    => /\ Len(out.kb) = 3
       /\ out.kb[2] = <<Str(out.page + 1) \o <<"/">> \o Str(out.tp), W_NOP>>
       /\ IF out.page > 0
          THEN /\ Route(out.kb[1][2]) = PagerHandler(out)
               /\ TargetPage(out.kb[1]) = out.page - 1
               /\ TargetPage(out.kb[1]) \in 0..(out.tp - 1)
          ELSE out.kb[1][2] = W_NOP
       /\ IF out.page < out.tp - 1
          THEN /\ Route(out.kb[3][2]) = PagerHandler(out)
               /\ TargetPage(out.kb[3]) = out.page + 1
               /\ TargetPage(out.kb[3]) \in 0..(out.tp - 1)
          ELSE out.kb[3][2] = W_NOP
       /\ (out.total = 16 /\ out.page = 0)
          => Len(out.rows) = 15 /\ out.kb[3][2] # W_NOP
       /\ (out.total = 16 /\ out.page = 1)
          => Len(out.rows) = 1 /\ out.kb[3][2] = W_NOP /\ out.kb[1][2] # W_NOP

\* the second page of a dictionary of 16 words
C19_Witness ==
    /\ out.handler = "cb_all" /\ out.total = 16 /\ out.page = 1
    /\ Len(out.rows) = 1
    /\ out.kb = << <<"prev", <<"A","L","L","|","0">> >>, <<<<"2","/","2">>, W_NOP>>,
                   <<" ", W_NOP>> >>

\* the records of the owner the view o is about: all of them, those whose
\* normalized primary starts with the letter, or those whose normalized
\* primary or secondary contains the query (a query without % and _)
Filtered(o, E, C) ==
    IF PagerHandler(o) = "cb_all" THEN OfUser(E, o.uid)
    ELSE IF PagerHandler(o) = "cb_letter"
    THEN {r \in OfUser(E, o.uid) :
             r.en_norm # <<>> /\ r.en_norm[1] = LowerChar(o.dec[2][1])}
    ELSE LET q == IF o.handler = "on_find_query" THEN Strip(o.data) ELSE C[o.uid][o.dec[2]]
         IN  {r \in OfUser(E, o.uid) :
                 Contains(r.en_norm, Lower(q)) \/ Contains(r.ru_norm, Lower(q))}

\* the view o has a filtered set: a search view only with a token that resolves
HasRows(o, E, C) ==
    PagerHandler(o) = "cb_find"
    => (o.handler = "on_find_query"
        \/ (o.uid \in DOMAIN C /\ o.dec[2] \in DOMAIN C[o.uid]))

\* the rows page p of the mode of view o holds, as the database returns them
PageRows(o, E, C, p) ==
    IF PagerHandler(o) = "cb_all" THEN list_entries(E, o.uid, PAGE_SIZE, p * PAGE_SIZE)
    ELSE IF PagerHandler(o) = "cb_letter"
    THEN list_by_letter(E, o.uid, o.dec[2], PAGE_SIZE, p * PAGE_SIZE)
    ELSE find_entries(E, o.uid,
                      IF o.handler = "on_find_query" THEN Strip(o.data) ELSE C[o.uid][o.dec[2]],
                      PAGE_SIZE, p * PAGE_SIZE)

\* pages 0 .. p of the mode of view o, one after the other
RECURSIVE PagesUpTo(_, _, _, _)
PagesUpTo(o, E, C, p) ==
    IF p < 0 THEN <<>> ELSE PagesUpTo(o, E, C, p - 1) \o PageRows(o, E, C, p)

\* C20: a rendered page p shows the records at the positions p * PAGE_SIZE ..
\* min(total, (p + 1) * PAGE_SIZE) - 1 of the owner's filtered records in
\* ascending order of the normalized primary; the total is the number of
\* filtered records; the pages 0 .. pages - 1 list every filtered record once
C20_PageWindow ==
    out.nq = 2
    => LET F     == Filtered(out, entries, FIND_CACHE)
           first == out.page * PAGE_SIZE
           last  == Min2(out.total, (out.page + 1) * PAGE_SIZE) - 1
           all   == PagesUpTo(out, entries, FIND_CACHE, out.tp - 1)
       IN  /\ out.total = Cardinality(F)
           /\ Len(out.rows) = Max2(0, last - first + 1)
           /\ \A i \in 1..Len(out.rows) :
                 \E r \in F :
                    /\ out.rows[i] = Row(r)
                    /\ Cardinality({x \in F : SeqLess(x.en_norm, r.en_norm)}) = first + i - 1
           /\ Len(all) = Cardinality(F)
           /\ {all[i] : i \in 1..Len(all)} = {Row(r) : r \in F}

\* the third page of the 31 words of user 1 holds the last word alone
C20_Witness ==
    /\ out.handler = "cb_all" /\ out.page = 2 /\ out.total = 31
    /\ Len(out.rows) = 1
    /\ \E r \in OfUser(entries, 1) :
          /\ out.rows[1] = Row(r)
          /\ \A x \in OfUser(entries, 1) : ~SeqLess(r.en_norm, x.en_norm)

-----------------------------------------------------------------------------
(* SpecStale: page buttons pressed after the dictionary has shrunk *)

\* user 1 holds 22 words: two pages in every mode (17 start with "A", 18
\* contain "a")
InitStale ==
    /\ entries = BigStore(22)
    /\ nextId = 24
    /\ fsm = [u \in Users |-> FsmIdle]
    /\ FIND_CACHE = <<>>
    /\ issued = [u \in Users |-> [t \in Tokens |-> NULL]]
    /\ out = Blank
    /\ inflight = [u \in Users |-> NoFlight]

\* the buttons of the second page of each view, kept on the screen
StalePresses ==
    PressesOf({<<W_MENU, W_LIST>>, <<W_MENU, W_FIND>>, <<W_MENU, W_DELETE>>,
               <<W_ALL, 1>>, <<W_LET, <<"A">>, 1>>, <<W_FIND, TOK1, 1>>}, {})

\* user 1 browses and deletes the words one by one, the last added first
NextStale ==
    \/ \E p \in StalePresses :
          \/ cb_menu(1, p)
          \/ cb_all(1, p)
          \/ cb_letter(1, p)
          \/ cb_find(1, p)
    \/ on_find_query(1, T_a, {TOK1})
    \/ \E r \in OfUser(entries, 1) :
          /\ \A x \in OfUser(entries, 1) : x.id <= r.id
          /\ on_delete_query(1, r.en)

SpecStale == InitStale /\ [][NextStale]_vars

\* C21: a page button whose page no longer exists renders the last page there
\* is now, without a fault; when nothing is left to list it renders page 0,
\* total 0, "1/1" and the empty-state text, as the list action does for an
\* empty dictionary
C21_StalePage ==
    (/\ out.handler \in {"cb_all", "cb_letter", "cb_find"}
     /\ out.dec # <<>>
     /\ HasRows(out, entries, FIND_CACHE)
     /\ out.dec[Len(out.dec)] * PAGE_SIZE >= Cardinality(Filtered(out, entries, FIND_CACHE))
     /\ out.dec[Len(out.dec)] > 0)
    => LET n == Cardinality(Filtered(out, entries, FIND_CACHE))
       IN  /\ ~out.fault /\ out.nq = 2 /\ out.op = "edit"
           /\ out.total = n
           /\ IsPageCount(n, out.tp)
           /\ out.page = out.tp - 1
           /\ Len(out.rows) = n - out.page * PAGE_SIZE
           /\ out.kb[2][1] = Str(out.tp) \o <<"/">> \o Str(out.tp)
           /\ n = 0
              => LET e == send_all(Blank, {}, out.uid, 0)
                 IN  /\ out.page = 0 /\ out.total = 0 /\ out.tp = 1
                     /\ out.kb[2][1] = <<"1", "/", "1">>
                     /\ out.msg = "list_empty" /\ out.rows = <<>>
                     /\ <<out.msg, out.total, out.tp, out.page, out.rows, out.kb[2]>>
                        = <<e.msg, e.total, e.tp, e.page, e.rows, e.kb[2]>>

\* the button "page 2" of the full list pressed when no word is left
C21_Witness ==
    /\ out.handler = "cb_all" /\ out.dec = <<W_ALL, 1>>
    /\ OfUser(entries, 1) = {}
    /\ out.total = 0 /\ out.page = 0 /\ out.msg = "list_empty"

-----------------------------------------------------------------------------
(* SpecProto: the callback protocol, every control and malformed data *)

\* user 1 holds records 1 and 12
InitProto ==
    /\ entries = {Rec(1, 1, T_cat, <<"k","o","t">>, NULL, NULL),
                  Rec(12, 1, T_Dog, <<"p","e","s">>, NULL, NULL)}
    /\ nextId = 13
    /\ fsm = [u \in Users |-> FsmIdle]
    /\ FIND_CACHE = <<>>
    /\ issued = [u \in Users |-> [t \in Tokens |-> NULL]]
    /\ out = Blank
    /\ inflight = [u \in Users |-> NoFlight]

\* every kind of control, with one- and two-digit pages and ids
ProtoControls == ControlsOf({0, 12}, {<<"A">>, <<"Z">>}, Tokens, {1, 12})

ProtoPresses == PressesOf(ProtoControls, MalformedData \cup StaleData)

NextProto ==
    \/ \E p \in ProtoPresses :
          \/ cb_menu(1, p)
          \/ cb_cancel(1, p)
          \/ cb_nop(1, p)
          \/ cb_all(1, p)
          \/ cb_letter(1, p)
          \/ cb_find(1, p)
          \/ cb_quiz(1, p)
          \/ cb_edit(1, p)
    \/ on_find_query(1, T_cat, {TOK1})

SpecProto == InitProto /\ [][NextProto]_vars

\* C2: the handler that receives the callback data of a control decodes the
\* action and the parameters the control was built for, without a fault
C2_RoundTrip ==
    out.ctl # <<>>
    => /\ ~out.fault
       /\ out.dec = out.ctl
       /\ out.handler = Route(out.data)

\* the button "example" of record 12: EDIT|FIELD|example|12
C2_Witness ==
    /\ out.data = <<"E","D","I","T","|","F","I","E","L","D","|",
                    "e","x","a","m","p","l","e","|","1","2">>
    /\ out.ctl = <<W_EDIT, W_FIELD, F_example, 12>>
    /\ out.dec = <<W_EDIT, W_FIELD, F_example, 12>>
    /\ fsm[1] = [state |-> "waiting_edit_value", data |-> <<12, F_example>>]

\* C3 (as stated): callback data with a known prefix and missing or
\* non-integer parameters is answered with a notice, no fault leaves the
\* handler, and the store, the interaction states and the token cache stay
\* as they were
C3_MalformedNoop ==
    [][(out'.data \in MalformedData /\ out'.handler = Route(out'.data))
       => /\ ~out'.fault
          /\ out'.ack # "none"
          /\ entries' = entries /\ fsm' = fsm /\ FIND_CACHE' = FIND_CACHE]_vars

\* C11 (as stated): once EDIT PICK id has been handled for a record the
\* owner holds, the owner is idle, whatever the state before the press, and
\* the field buttons of exactly that record have been sent
C11_PickLeavesIdle ==
    (/\ out.handler = "cb_edit"
     /\ Len(out.dec) = 3
     /\ out.dec[2] = W_PICK
     /\ \E r \in entries : r.user_id = out.uid /\ r.id = out.dec[3])
    => /\ fsm[out.uid] = FsmIdle
       /\ out.msg = "edit_fields"
       /\ out.kb = kb_edit_fields(out.dec[3])

\* the id a button of a quiz card carries: the third part of its data
ButtonId(button) == IntOf(Split(button[2], "|", 2)[3])

ButtonAction(button) == Split(button[2], "|", 2)[2]

\* o shows record r as a quiz card with the secondary hidden: the primary,
\* then the example and the tags the record has, and the three buttons SHOW
\* r.id, NEXT, DEL r.id
HiddenCardOf(o, r) ==
    /\ o.msg = "card_hidden"
    /\ o.rows = <<Row(r)>>
    /\ o.card = <<r.en>> \o (IF r.example \in {NULL, <<>>} THEN <<>> ELSE <<r.example>>)
                        \o (IF r.tags \in {NULL, <<>>} THEN <<>> ELSE <<r.tags>>)
    /\ Len(o.kb) = 3
    /\ ButtonAction(o.kb[1]) = W_SHOW /\ ButtonId(o.kb[1]) = r.id
    /\ ButtonAction(o.kb[2]) = W_NEXT
    /\ ButtonAction(o.kb[3]) = W_DEL /\ ButtonId(o.kb[3]) = r.id

\* C16: QUIZ DEL id removes the record id of the owner when there is one and
\* nothing else, and always goes on to the next step: the message is edited
\* into a hidden card of a record that is still stored, never the one deleted,
\* or into the "empty" text when the owner has no record left
C16_QuizDelChains ==
    [][(out'.handler = "cb_quiz" /\ Len(out'.dec) = 3 /\ out'.dec[2] = W_DEL)
       => /\ entries' = entries \ {r \in entries : r.user_id = out'.uid /\ r.id = out'.dec[3]}
          /\ out'.op = "edit"
          /\ IF OfUser(entries', out'.uid) = {}
             THEN out'.msg = "quiz_empty"
             ELSE \E r \in OfUser(entries', out'.uid) :
                     HiddenCardOf(out', r) /\ r.id # out'.dec[3]]_vars

\* record 1 has just been deleted from its card and record 12 is shown
C16_Witness ==
    /\ out.handler = "cb_quiz" /\ out.dec = <<W_QUIZ, W_DEL, 1>>
    /\ out.ack = "deleted"
    /\ out.msg = "card_hidden" /\ out.rows[1][1] = 12
    /\ \A r \in entries : r.id # 1

\* C17: the quiz "next" step, from MENU QUIZ or QUIZ NEXT, reports "empty"
\* exactly when the owner has no record, without a fault; otherwise it shows
\* a hidden card of one of the owner's records whose SHOW and DEL buttons
\* carry the id of that record
C17_QuizNext ==
    (\/ out.handler = "cb_quiz" /\ out.dec = <<W_QUIZ, W_NEXT>>
     \/ out.handler = "cb_menu" /\ out.dec = <<W_MENU, W_QUIZ>>)
    => /\ ~out.fault
       /\ (out.msg = "quiz_empty" \/ out.ack = "quiz_empty")
          <=> OfUser(entries, out.uid) = {}
       /\ OfUser(entries, out.uid) # {}
          => \E r \in OfUser(entries, out.uid) : HiddenCardOf(out, r)

\* QUIZ NEXT has drawn record 12 of the two records of user 1
C17_Witness ==
    /\ out.handler = "cb_quiz" /\ out.dec = <<W_QUIZ, W_NEXT>>
    /\ out.msg = "card_hidden" /\ out.rows[1][1] = 12
    /\ out.kb[1][2] = <<"Q","U","I","Z","|","S","H","O","W","|","1","2">>
    /\ Cardinality(OfUser(entries, 1)) = 2

-----------------------------------------------------------------------------
(* SpecFind: searches of two users, page-turns by token, restarts *)

\* user 1 has "cat" and "dog", user 2 has "cat"
InitFind ==
    /\ entries = {Rec(1, 1, T_cat, <<"k","o","t">>, NULL, NULL),
                  Rec(2, 1, <<"d","o","g">>, <<"p","e","s">>, NULL, NULL),
                  Rec(3, 2, T_cat, <<"k","i","t">>, NULL, NULL)}
    /\ nextId = 4
    /\ fsm = [u \in Users |-> FsmIdle]
    /\ FIND_CACHE = <<>>
    /\ issued = [u \in Users |-> [t \in Tokens |-> NULL]]
    /\ out = Blank
    /\ inflight = [u \in Users |-> NoFlight]

FindPresses ==
    PressesOf({<<W_MENU, W_FIND>>, <<W_FIND, TOK1, 0>>, <<W_FIND, TOK2, 0>>,
               <<W_FIND, TOK1, 2>>}, {})

\* "c_t" holds the LIKE wildcard "_"
T_c_t == <<"c","_","t">>

FindTexts == {T_cat, T_Dog, T_c_t}

NextFind ==
    \/ \E u \in Users, p \in FindPresses :
          \/ cb_menu(u, p)
          \/ cb_find(u, p)
    \/ \E u \in Users, t \in FindTexts : on_find_query(u, t, Tokens)
    \/ Restart

SpecFind == InitFind /\ [][NextFind]_vars

\* the token cache of user y; a user without a dictionary has no tokens
CacheOf(C, y) == IF y \in DOMAIN C THEN C[y] ELSE <<>>

\* user u holds token t in the cache
HasToken(C, u, t) == u \in DOMAIN C /\ t \in DOMAIN C[u]

\* C4: a page-turn with a token the user does not hold in the cache answers
\* "search expired": no count or list query, no message edited, no fault
C4_MissExpired ==
    (out.handler = "cb_find" /\ out.dec # <<>>
     /\ ~HasToken(FIND_CACHE, out.uid, out.dec[2]))
    => /\ out.ack = "search_expired"
       /\ out.nq = 0
       /\ out.op = "none"
       /\ ~out.fault

\* the token was issued to the user before a restart and is now expired
C4_Witness ==
    /\ out.handler = "cb_find" /\ out.ack = "search_expired" /\ out.nq = 0
    /\ out.dec = <<W_FIND, TOK1, 2>>
    /\ issued[out.uid][TOK1] = LOST

\* C5: for every user and token the cache resolves to the query the same user
\* issued last under that token since the process started, and to nothing
\* when the user issued none; a page-turn shows the matches of that query
C5_TokenResolve ==
    /\ \A u \in Users, t \in Tokens :
          CacheGet(FIND_CACHE, u, t) = IF issued[u][t] = LOST THEN NULL ELSE issued[u][t]
    /\ (out.handler = "cb_find" /\ out.nq = 2)
       => /\ issued[out.uid][out.dec[2]] \notin {NULL, LOST}
          /\ out.total = count_find(entries, out.uid, issued[out.uid][out.dec[2]])
          /\ out.rows = find_entries(entries, out.uid, issued[out.uid][out.dec[2]],
                                     PAGE_SIZE, out.offset)

\* both users searched under the same token; user 2 turns a page of its own
\* search "Dog" (no match), not of user 1's "cat"; user 2 never held the
\* other token, which user 1 holds
C5_Witness ==
    /\ issued[1][TOK1] = T_cat /\ issued[2][TOK1] = T_Dog
    /\ issued[1][TOK2] = T_cat /\ issued[2][TOK2] = NULL
    /\ out.handler = "cb_find" /\ out.uid = 2 /\ out.dec = <<W_FIND, TOK1, 0>>
    /\ out.nq = 2 /\ out.total = 0

\* the query of the search view o
QueryOf(o) ==
    IF o.handler = "on_find_query" THEN Strip(o.data) ELSE issued[o.uid][o.dec[2]]

\* the records of uid whose normalized primary or secondary contains the
\* trimmed, lowercased query as it is written
LiteralMatches(E, uid, q) ==
    {r \in OfUser(E, uid) :
        Contains(r.en_norm, Lower(Strip(q))) \/ Contains(r.ru_norm, Lower(Strip(q)))}

\* C26 (as stated): the total and the rows of every search view are those of
\* the owner's records whose normalized primary or secondary contains the
\* trimmed, lowercased query as a literal substring
C26_LiteralSubstring ==
    (out.handler \in {"on_find_query", "cb_find"} /\ out.nq = 2)
    => /\ out.total = Cardinality(LiteralMatches(entries, out.uid, QueryOf(out)))
       /\ {out.rows[i] : i \in 1..Len(out.rows)}
          = {Row(r) : r \in LiteralMatches(entries, out.uid, QueryOf(out))}

\* C27 (as stated): the tokens one owner holds in the cache stay below a cap;
\* the cap is taken below the number of tokens the model draws, so that an
\* owner never holds all of them at once
C27_CacheCapped ==
    \A u \in Users : Cardinality(DOMAIN CacheOf(FIND_CACHE, u)) < Cardinality(Tokens)

-----------------------------------------------------------------------------
(* SpecStore: adds, bulk adds, edits of the primary field and deletes *)

InitStore ==
    /\ entries = {}
    /\ nextId = 1
    /\ fsm = [u \in Users |-> FsmIdle]
    /\ FIND_CACHE = <<>>
    /\ issued = [u \in Users |-> [t \in Tokens |-> NULL]]
    /\ out = Blank
    /\ inflight = [u \in Users |-> NoFlight]

StorePresses ==
    PressesOf({<<W_MENU, W_BULK>>, <<W_MENU, W_DELETE>>, <<W_EDIT, W_FIELD, F_en, 1>>,
               <<W_EDIT, W_FIELD, F_en, 2>>}, {})

StoreTexts == {T_cat_kot, T_Cat_kit, T_cat, T_bulk}

\* user 1 adds, edits and deletes; user 2 adds a word user 1 may hold too
NextStore ==
    \/ \E p \in StorePresses :
          \/ cb_menu(1, p)
          \/ cb_edit(1, p)
    \/ \E t \in StoreTexts :
          \/ on_delete_query(1, t)
          \/ on_edit_value(1, t)
          \/ on_bulk_add(1, t)
          \/ on_text_add(1, t)
    \/ on_text_add(2, T_Cat_kit)

SpecStore == InitStore /\ [][NextStore]_vars

\* C7: no user has two records with the same normalized primary, and the
\* normalized primary of every record is its display primary trimmed and
\* lowercased
C7_UniquePrimary ==
    /\ \A r1, r2 \in entries :
          (r1.user_id = r2.user_id /\ r1.en_norm = r2.en_norm) => r1 = r2
    /\ \A r \in entries : r.en_norm = Lower(Strip(r.en))

\* user 1 holds two words and tried to rename one to the other: refused
C7_Witness ==
    /\ out.handler = "on_edit_value" /\ out.msg = "already_exists"
    /\ Cardinality(OfUser(entries, 1)) = 2
    /\ \E r \in entries : r.user_id = 2 /\ r.en_norm = T_cat
    /\ \E r \in entries : r.user_id = 1 /\ r.en_norm = T_cat

\* C8: a single add whose normalized primary the user already holds changes
\* that record in place: same count, same id, the display primary, secondary,
\* example and tags of the new line, every other record as before
C8_UpsertInPlace ==
    [][(/\ out'.handler = "on_text_add" /\ out'.msg = "saved"
        /\ \E r \in entries : /\ r.user_id = out'.uid
                               /\ r.en_norm = Lower(Strip(out'.rows[1][2])))
       => LET u   == out'.uid
              w   == out'.rows[1]
              old == CHOOSE r \in entries : /\ r.user_id = u
                                            /\ r.en_norm = Lower(Strip(w[2]))
          IN  /\ Cardinality(OfUser(entries', u)) = Cardinality(OfUser(entries, u))
              /\ \E new \in entries' :
                    /\ new.id = old.id /\ new.user_id = u
                    /\ new.en = w[2] /\ new.ru = w[3]
                    /\ new.example = w[4] /\ new.tags = w[5]
                    /\ entries' \ {new} = entries \ {old}]_vars

\* "cat - kot", then "Cat (dash) kit | ex: Ab": one record, id 1, shown as
\* "Cat" with secondary "kit"; two rowids were used
C8_Witness ==
    /\ out.handler = "on_text_add" /\ out.uid = 1 /\ out.data = T_Cat_kit
    /\ out.msg = "saved"
    /\ entries = {[id |-> 1, user_id |-> 1, en |-> <<"C","a","t">>, en_norm |-> T_cat,
                   ru |-> <<"k","i","t">>, ru_norm |-> <<"k","i","t">>,
                   example |-> <<"A","b">>, tags |-> NULL]}
    /\ nextId = 3

-----------------------------------------------------------------------------
(* SpecEdit: edits of every field, conflicts, records that are gone *)

T_dash == <<"-">>
T_dOG == <<" ","d","O","G">>

\* user 1 holds records 1 and 2, user 2 holds record 3 with the primary "a"
InitEdit ==
    /\ entries = {Rec(1, 1, T_cat, <<"k","o","t">>, <<"E","x">>, NULL),
                  Rec(2, 1, T_Dog, <<"p","e","s">>, NULL, <<"t","g">>),
                  Rec(3, 2, T_a, <<"k","i","t">>, NULL, NULL)}
    /\ nextId = 4
    /\ fsm = [u \in Users |-> FsmIdle]
    /\ FIND_CACHE = <<>>
    /\ issued = [u \in Users |-> [t \in Tokens |-> NULL]]
    /\ out = Blank
    /\ inflight = [u \in Users |-> NoFlight]

EditControls ==
    { <<W_EDIT, W_FIELD, F_en, 1>>, <<W_EDIT, W_FIELD, F_example, 1>>,
      <<W_EDIT, W_FIELD, F_ru, 2>>, <<W_EDIT, W_FIELD, F_tags, 2>>,
      <<W_EDIT, W_FIELD, F_en, 3>>,
      <<W_EDIT, W_PICK, 1>>, <<W_QUIZ, W_SHOW, 1>>, <<W_QUIZ, W_DEL, 1>>,
      <<W_CANCEL>> }

EditPresses == PressesOf(EditControls, {})

EditTexts == {T_dash, T_dOG, T_a}

NextEdit ==
    \/ \E p \in EditPresses :
          \/ cb_cancel(1, p)
          \/ cb_quiz(1, p)
          \/ cb_edit(1, p)
    \/ \E t \in EditTexts :
          \/ on_edit_value(1, t)
          \/ on_text_add(1, t)

SpecEdit == InitEdit /\ [][NextEdit]_vars

\* the columns of r2 that differ from r are those of field f alone
OnlyField(r, r2, f) ==
    /\ r2.id = r.id /\ r2.user_id = r.user_id
    /\ f # F_en => r2.en = r.en /\ r2.en_norm = r.en_norm
    /\ f # F_ru => r2.ru = r.ru /\ r2.ru_norm = r.ru_norm
    /\ f # F_example => r2.example = r.example
    /\ f # F_tags => r2.tags = r.tags
    /\ r2.en_norm = Lower(r2.en) /\ r2.ru_norm = Lower(r2.ru)

\* C12: EDIT FIELD field id puts the owner in waiting_edit_value with the
\* payload (id, field) and touches no record; the text that follows leaves the
\* owner idle, keeps the set of records, and changes at most the columns of
\* that field (with its normalized companion) in that record of that owner
C12_EditOneField ==
    [][/\ (out'.handler = "cb_edit" /\ Len(out'.dec) = 4 /\ out'.dec[2] = W_FIELD)
          => /\ fsm'[out'.uid] = [state |-> "waiting_edit_value",
                                 data |-> <<out'.dec[4], out'.dec[3]>>]
             /\ entries' = entries
       /\ (out'.handler = "on_edit_value" /\ fsm[out'.uid].state = "waiting_edit_value")
          => /\ fsm'[out'.uid] = FsmIdle
             /\ Cardinality(entries') = Cardinality(entries)
             /\ \A r \in entries : \E r2 \in entries' :
                   \/ r2 = r
                   \/ /\ r.id = fsm[out'.uid].data[1]
                      /\ r.user_id = out'.uid
                      /\ OnlyField(r, r2, fsm[out'.uid].data[2])]_vars

\* the tags of record 2 have been replaced, in a store where record 1 and the
\* record of user 2 are as they were
C12_Witness ==
    /\ out.handler = "on_edit_value" /\ out.msg = "updated"
    /\ fsm[1] = FsmIdle
    /\ Rec(2, 1, T_Dog, <<"p","e","s">>, NULL, <<"d","O","G">>) \in entries
    /\ Rec(1, 1, T_cat, <<"k","o","t">>, <<"E","x">>, NULL) \in entries
    /\ Rec(3, 2, T_a, <<"k","i","t">>, NULL, NULL) \in entries

\* the value of column f of record r, for f one of example and tags
Optional(r, f) == IF f = F_example THEN r.example ELSE r.tags

\* C13: a text received in waiting_edit_value for the example or the tags of
\* a record the owner holds leaves that column NULL when the text is "-" and
\* holding the (stripped) text otherwise; the column never holds "-"
C13_DashClears ==
    [][(/\ out'.handler = "on_edit_value"
        /\ fsm[out'.uid].state = "waiting_edit_value"
        /\ fsm[out'.uid].data[2] \in {F_example, F_tags}
        /\ \E r \in entries : r.user_id = out'.uid /\ r.id = fsm[out'.uid].data[1])
       => \E r2 \in entries' :
             /\ r2.user_id = out'.uid /\ r2.id = fsm[out'.uid].data[1]
             /\ Optional(r2, fsm[out'.uid].data[2]) # <<"-">>
             /\ Strip(out'.data) = <<"-">>
                => Optional(r2, fsm[out'.uid].data[2]) = NULL
             /\ (Strip(out'.data) # <<"-">> /\ Strip(out'.data) # <<>>)
                => Optional(r2, fsm[out'.uid].data[2]) = Strip(out'.data)]_vars

\* "-" has just cleared the example "Ex" of record 1
C13_Witness ==
    /\ out.handler = "on_edit_value" /\ out.data = T_dash /\ out.msg = "updated"
    /\ out.rows = << <<1, T_cat, <<"k","o","t">>, NULL, NULL>> >>
    /\ \E r \in entries : r.id = 1 /\ r.example = NULL /\ r.en = T_cat

\* C14: a new primary whose normalized form is the normalized primary of
\* another record of the same owner is answered with the "already exists"
\* message; the store is left as it was and the owner is idle
C14_EditConflict ==
    [][(/\ out'.handler = "on_edit_value"
        /\ fsm[out'.uid].state = "waiting_edit_value"
        /\ fsm[out'.uid].data[2] = F_en
        /\ \E r, o \in entries :
              /\ r.user_id = out'.uid /\ r.id = fsm[out'.uid].data[1]
              /\ o.user_id = out'.uid /\ o.id # r.id
              /\ o.en_norm = Lower(IF Strip(out'.data) = <<"-">> THEN <<>>
                                   ELSE Strip(out'.data)))
       => /\ out'.msg = "already_exists"
          /\ entries' = entries
          /\ fsm'[out'.uid] = FsmIdle]_vars

\* " dOG" was sent as the new primary of record 1 while record 2 is "Dog"
C14_Witness ==
    /\ out.handler = "on_edit_value" /\ out.data = T_dOG
    /\ out.msg = "already_exists"
    /\ fsm[1] = FsmIdle
    /\ \E r \in entries : r.id = 1 /\ r.user_id = 1 /\ r.en_norm # <<"d","o","g">>
    /\ \E o \in entries : o.id = 2 /\ o.user_id = 1 /\ o.en = T_Dog

\* user uid holds no record with this id
Gone(E, uid, id) == ~\E r \in E : r.user_id = uid /\ r.id = id

\* C18: QUIZ SHOW id and EDIT PICK id for an id the owner does not hold (any
\* longer) are answered with a "not found" alert and send nothing; a text in
\* waiting_edit_value for such an id is answered with the "could not update"
\* message and leaves the owner idle; no record changes in any of the three
C18_StaleId ==
    [][/\ (/\ out'.handler = "cb_quiz" /\ Len(out'.dec) = 3 /\ out'.dec[2] = W_SHOW
           /\ Gone(entries, out'.uid, out'.dec[3]))
          => /\ out'.ack = "card_not_found" /\ out'.op = "none" /\ ~out'.fault
             /\ entries' = entries
       /\ (/\ out'.handler = "cb_edit" /\ Len(out'.dec) = 3 /\ out'.dec[2] = W_PICK
           /\ Gone(entries, out'.uid, out'.dec[3]))
          => /\ out'.ack = "entry_not_found" /\ out'.op = "none" /\ ~out'.fault
             /\ entries' = entries
       /\ (/\ out'.handler = "on_edit_value"
           /\ fsm[out'.uid].state = "waiting_edit_value"
           /\ fsm[out'.uid].data[2] \in Fields
           /\ Gone(entries, out'.uid, fsm[out'.uid].data[1]))
          => /\ out'.msg = "update_failed" /\ ~out'.fault
             /\ entries' = entries
             /\ fsm'[out'.uid] = FsmIdle]_vars

\* the SHOW button of the card of record 1 was pressed after record 1 had
\* been deleted; record 2 is as it was
C18_Witness ==
    /\ out.handler = "cb_quiz" /\ out.dec = <<W_QUIZ, W_SHOW, 1>>
    /\ out.ack = "card_not_found"
    /\ Gone(entries, 1, 1)
    /\ Rec(2, 1, T_Dog, <<"p","e","s">>, NULL, <<"t","g">>) \in entries

\* C28 (as stated): every stored record has a primary and a secondary text
\* that are not empty
C28_RequiredFields ==
    \A r \in entries : r.en # <<>> /\ r.ru # <<>>

-----------------------------------------------------------------------------
(* SpecBulk: bulk adds with lines that parse, fail, repeat or are blank *)

\* two lines with one key and a blank line between them
T_bulk_twice == <<"C","a","t"," ","EMDASH"," ","k","i","t","\n"," ","\n",
                  "*"," ","c","a","t"," ","-"," ","k","o","t">>

\* eleven lines that do not parse, then one that does
T_bulk_bad == <<"z","\n","z","z","\n","3",")","\n","-","\n","q"," ","-","\n","z","\n",
                "z","\n","z","\n","z","\n","z","\n","y","\n",
                "a"," ","EMDASH"," ","b">>

InitBulk ==
    /\ entries = {}
    /\ nextId = 1
    /\ fsm = [u \in Users |-> FsmIdle]
    /\ FIND_CACHE = <<>>
    /\ issued = [u \in Users |-> [t \in Tokens |-> NULL]]
    /\ out = Blank
    /\ inflight = [u \in Users |-> NoFlight]

BulkPresses == PressesOf({<<W_MENU, W_BULK>>, <<W_MENU, W_DELETE>>}, {})

BulkTexts == {T_bulk, T_bulk_twice, T_bulk_bad, T_cat_kot}

NextBulk ==
    \E u \in Users :
       \/ \E p \in BulkPresses : cb_menu(u, p)
       \/ \E t \in BulkTexts : on_bulk_add(u, t)
       \/ on_delete_query(u, T_cat)

SpecBulk == InitBulk /\ [][NextBulk]_vars

\* the lines of a bulk message that are not blank
NonBlank(text) == SelectSeq(Split(Strip(text), "\n", -1), LAMBDA l : Strip(l) # <<>>)

Parses(l) == ~parse_bulk_line(l)[1].err

\* the store after the lines that parse are upserted one by one, in order
RECURSIVE UpsertLines(_, _, _, _)
UpsertLines(E, nid, uid, lines) ==
    IF lines = <<>> THEN E
    ELSE IF ~Parses(Head(lines)) THEN UpsertLines(E, nid, uid, Tail(lines))
    ELSE LET it == parse_bulk_line(Head(lines))[1]
         IN  UpsertLines(upsert_entry(E, nid, uid, it.en, it.ru, it.example, it.tags),
                         nid + 1, uid, Tail(lines))

\* C15: a bulk message with n non-blank lines reports saved + skipped = n,
\* saved being the number of lines that parse; the store is the one obtained
\* by upserting the lines that parse one by one in order, whatever lines fail
\* before or after them; the preview holds the first failed lines, ten at
\* most; the owner ends idle
C15_BulkAdd ==
    [][(out'.handler = "on_bulk_add" /\ out'.msg = "bulk_done")
       => LET lines  == NonBlank(out'.data)
              failed == SelectSeq(lines, LAMBDA l : ~Parses(l))
          IN  /\ out'.saved + out'.skipped = Len(lines)
              /\ out'.saved = Len(SelectSeq(lines, Parses))
              /\ entries' = UpsertLines(entries, nextId, out'.uid, lines)
              /\ Len(out'.errors) <= 10
              /\ Len(out'.errors) = Min2(10, Len(failed))
              /\ \A i \in 1..Len(out'.errors) : out'.errors[i] = failed[i]
              /\ fsm'[out'.uid] = FsmIdle]_vars

\* eleven lines failed and ten are previewed; the twelfth line was saved
C15_Witness ==
    /\ out.handler = "on_bulk_add" /\ out.data = T_bulk_bad
    /\ out.saved = 1 /\ out.skipped = 11 /\ Len(out.errors) = 10
    /\ \E r \in entries : r.user_id = out.uid /\ r.en = <<"a">> /\ r.ru = <<"b">>
    /\ fsm[out.uid] = FsmIdle

-----------------------------------------------------------------------------
(* SpecRoute: the same texts sent in every interaction state *)

T_dog_pes == <<"d","o","g"," ","-"," ","p","e","s">>

InitRoute ==
    /\ entries = {Rec(1, 1, T_cat, <<"k","o","t">>, NULL, NULL)}
    /\ nextId = 2
    /\ fsm = [u \in Users |-> FsmIdle]
    /\ FIND_CACHE = <<>>
    /\ issued = [u \in Users |-> [t \in Tokens |-> NULL]]
    /\ out = Blank
    /\ inflight = [u \in Users |-> NoFlight]

RoutePresses ==
    PressesOf({<<W_MENU, a>> : a \in MenuActions} \cup {<<W_EDIT, W_FIELD, F_ru, 1>>}, {})

\* a line of the shape "primary - secondary", a single word and the command
RouteTexts == {T_dog_pes, T_cat, T_start}

NextRoute ==
    \/ \E p \in RoutePresses :
          \/ cb_menu(1, p)
          \/ cb_edit(1, p)
    \/ \E t \in RouteTexts :
          \/ cmd_start(1, t)
          \/ on_find_query(1, t, {TOK1})
          \/ on_delete_query(1, t)
          \/ on_edit_query(1, t)
          \/ on_edit_value(1, t)
          \/ on_bulk_add(1, t)
          \/ on_text_add(1, t)

SpecRoute == InitRoute /\ [][NextRoute]_vars

TextHandlers ==
    {"cmd_start", "on_find_query", "on_delete_query", "on_edit_query", "on_edit_value",
     "on_bulk_add", "on_text_add"}

\* the handler registered for the state
StateHandler(state) ==
    CASE state = "idle" -> "on_text_add"
      [] state = "waiting_find" -> "on_find_query"
      [] state = "waiting_delete" -> "on_delete_query"
      [] state = "waiting_edit_query" -> "on_edit_query"
      [] state = "waiting_edit_value" -> "on_edit_value"
      [] state = "waiting_bulk_add" -> "on_bulk_add"

-----------------------------------------------------------------------------
(* SpecOwner: two users, each using the ids and the primary of the other *)

\* both users hold a record with the primary "cat"
InitOwner ==
    /\ entries = {Rec(1, 1, T_cat, <<"k","o","t">>, NULL, NULL),
                  Rec(2, 2, T_cat, <<"k","i","t">>, <<"A","b">>, NULL)}
    /\ nextId = 3
    /\ fsm = [u \in Users |-> FsmIdle]
    /\ FIND_CACHE = <<>>
    /\ issued = [u \in Users |-> [t \in Tokens |-> NULL]]
    /\ out = Blank
    /\ inflight = [u \in Users |-> NoFlight]

OwnerPresses ==
    PressesOf({<<W_MENU, W_DELETE>>, <<W_MENU, W_LIST>>, <<W_QUIZ, W_NEXT>>}
              \cup {<<W_QUIZ, a, i>> : a \in {W_SHOW, W_DEL}, i \in {1, 2}}
              \cup {<<W_EDIT, W_PICK, i>> : i \in {1, 2}}
              \cup {<<W_EDIT, W_FIELD, F_ru, i>> : i \in {1, 2}}, {})

OwnerTexts == {T_cat, T_cat_kot}

NextOwner ==
    \/ \E u \in Users, p \in OwnerPresses :
          \/ cb_menu(u, p)
          \/ cb_quiz(u, p)
          \/ cb_edit(u, p)
    \/ \E u \in Users, t \in OwnerTexts :
          \/ on_delete_query(u, t)
          \/ on_edit_value(u, t)
          \/ on_text_add(u, t)

SpecOwner == InitOwner /\ [][NextOwner]_vars

\* C24: a step of user x leaves the records of every other user as they
\* were; every row it shows is a row of x (or the line x has just sent); and
\* QUIZ SHOW, QUIZ DEL, EDIT PICK and an edit-value text that carry an id x
\* does not hold are answered "not found"
C24_OwnerIsolation ==
    [][out'.uid \in Users
       => LET x == out'.uid
              mine(id) == \E r \in entries : r.user_id = x /\ r.id = id
          IN  /\ \A y \in Users \ {x} : OfUser(entries', y) = OfUser(entries, y)
              /\ \A i \in 1..Len(out'.rows) :
                    \/ out'.handler = "on_text_add"
                    \/ \E r \in OfUser(entries, x) \cup OfUser(entries', x) :
                          out'.rows[i] = Row(r)
              /\ (out'.handler = "cb_quiz" /\ Len(out'.dec) = 3 /\ ~mine(out'.dec[3]))
                 => /\ out'.dec[2] = W_SHOW => out'.ack = "card_not_found" /\ out'.rows = <<>>
                    /\ out'.dec[2] = W_DEL => out'.ack = "not_found" /\ entries' = entries
              /\ (out'.handler = "cb_edit" /\ Len(out'.dec) = 3 /\ ~mine(out'.dec[3]))
                 => out'.ack = "entry_not_found" /\ out'.rows = <<>>
              /\ (/\ out'.handler = "on_edit_value"
                  /\ fsm[x].state = "waiting_edit_value"
                  /\ ~mine(fsm[x].data[1]))
                 => out'.msg = "update_failed" /\ entries' = entries]_vars

\* user 1 has pressed QUIZ|DEL|2: record 2 of user 2 is as it was and user 1
\* is shown the own record 1
C24_Witness ==
    /\ out.uid = 1 /\ out.dec = <<W_QUIZ, W_DEL, 2>>
    /\ out.ack = "not_found"
    /\ out.rows = << <<1, T_cat, <<"k","o","t">>, NULL, NULL>> >>
    /\ Rec(2, 2, T_cat, <<"k","i","t">>, <<"A","b">>, NULL) \in entries

-----------------------------------------------------------------------------
(* Interaction flows (Spec) *)

\* C6: an update handled for one user leaves the interaction state, the
\* payload and the cached search tokens of every other user as they were
C6_FlowIsolation ==
    [][\A y \in Users :
          (out'.uid \in Users /\ out'.uid # y)
          => /\ fsm'[y] = fsm[y]
             /\ CacheOf(FIND_CACHE', y) = CacheOf(FIND_CACHE, y)]_vars

\* user 2 has just run a search while user 1 waits in the edit flow with its
\* payload and without any token
C6_Witness ==
    /\ out.handler = "on_find_query" /\ out.uid = 2 /\ out.nq = 2
    /\ fsm[1] = [state |-> "waiting_edit_value", data |-> <<1, F_example>>]
    /\ CacheOf(FIND_CACHE, 2) # <<>>
    /\ CacheOf(FIND_CACHE, 1) = <<>>

\* the flow MENU|<action> selects
MenuFlow(action) ==
    CASE action = W_FIND -> "waiting_find"
      [] action = W_DELETE -> "waiting_delete"
      [] action = W_EDIT -> "waiting_edit_query"
      [] action = W_BULK -> "waiting_bulk_add"
      [] OTHER -> "idle"

\* C9: after CANCEL the user is idle with an empty payload; after MENU|<action>
\* the user is in the flow the action selects, or idle, with an empty payload
C9_CancelMenuReset ==
    /\ out.handler = "cb_cancel"
       => fsm[out.uid] = [state |-> "idle", data |-> <<>>]
    /\ out.handler = "cb_menu"
       => fsm[out.uid] = [state |-> MenuFlow(out.dec[2]), data |-> <<>>]

\* MENU|BULK pressed by user 1; user 2 still holds an edit payload
C9_Witness ==
    /\ out.handler = "cb_menu" /\ out.uid = 1 /\ out.dec = <<W_MENU, W_BULK>>
    /\ fsm[1] = [state |-> "waiting_bulk_add", data |-> <<>>]
    /\ fsm[2].data # <<>>

FlowTags ==
    {"idle", "waiting_find", "waiting_delete", "waiting_edit_query",
     "waiting_edit_value", "waiting_bulk_add"}

\* C10: every user is in exactly one flow, and the payload is non-empty only
\* while the user is awaiting an edit field value
C10_OneFlowPayload ==
    \A u \in Users :
        /\ fsm[u].state \in FlowTags
        /\ fsm[u].data # <<>> => fsm[u].state = "waiting_edit_value"

\* an edit flow completed: the value was stored and no payload is left
C10_Witness ==
    /\ out.handler = "on_edit_value" /\ out.msg = "updated"
    /\ fsm[out.uid] = [state |-> "idle", data |-> <<>>]

\* C23 (as stated): the state and the payload of a user who is in an awaiting
\* state change only on a step of that user that is a CANCEL, a MENU press or
\* a text handled by the handler of the state (a process start aside)
C23_OnlyCancelMenuText ==
    [][\A y \in Users :
          (fsm[y].state # "idle" /\ fsm'[y] # fsm[y] /\ out'.handler # "restart")
          => /\ out'.uid = y
             /\ out'.handler \in {"cb_cancel", "cb_menu", StateHandler(fsm[y].state)}]_vars

\* C23 (amended): the state and the payload of a user who is in an awaiting
\* state stay as they are across that user's ALL, LET, FIND, NOP, QUIZ and
\* EDIT PICK callbacks and across every step of another user; they change
\* only on a step of that user that is a CANCEL, a MENU press, an EDIT FIELD
\* press, the command /start or a text handled by the handler of the state,
\* and when the process starts anew
C23_AwaitingPersists ==
    [][\A y \in Users :
          (fsm[y].state # "idle" /\ fsm'[y] # fsm[y] /\ out'.handler # "restart")
          => /\ out'.uid = y
             /\ \/ out'.handler \in {"cb_cancel", "cb_menu", "cmd_start",
                                     StateHandler(fsm[y].state)}
                \/ /\ out'.handler = "cb_edit"
                   /\ Len(out'.dec) = 4 /\ out'.dec[2] = W_FIELD]_vars

\* user 1 still awaits the new example of record 1 after user 2, who awaits
\* a search query, has asked for the next quiz card
C23_Witness ==
    /\ fsm[1] = [state |-> "waiting_edit_value", data |-> <<1, F_example>>]
    /\ fsm[2].state = "waiting_find"
    /\ out.handler = "cb_quiz" /\ out.uid = 2 /\ out.msg = "card_hidden"

-----------------------------------------------------------------------------
(* SpecAsync: page renders suspended in their await while other handlers run *)

\* user 1 holds one word, user 2 none
InitAsync ==
    /\ entries = {Rec(1, 1, <<"c","a","t">>, <<"k","o","t">>, NULL, NULL)}
    /\ nextId = 2
    /\ fsm = [u \in Users |-> FsmIdle]
    /\ FIND_CACHE = <<>>
    /\ issued = [u \in Users |-> [t \in Tokens |-> NULL]]
    /\ out = Blank
    /\ inflight = [u \in Users |-> NoFlight]

\* the first page of each view, the search menu and the quiz delete button
AsyncPresses ==
    PressesOf({<<W_MENU, W_FIND>>, <<W_ALL, 0>>, <<W_LET, <<"C">>, 0>>,
               <<W_FIND, TOK1, 0>>, <<W_QUIZ, W_DEL, 1>>}, {})

\* an upsert that rewrites the secondary and the example of "cat", and an insert
AsyncTexts == {T_Cat_kit, T_dog_pes}

\* a page render of user 1 begins and, later, ends; in between, and around
\* it, user 1 adds, rewrites and deletes words and opens a search, and user 2
\* adds a word and has the own list rendered
NextAsync ==
    \/ \E p \in AsyncPresses :
          \/ render_begin(1, p)
          \/ cb_menu(1, p)
          \/ cb_quiz(1, p)
          \/ render_begin(2, p) /\ Route(p.data) = "cb_all"
    \/ \E u \in Users : render_end(u)
    \/ on_find_query(1, T_cat, {TOK1})
    \/ \E t \in AsyncTexts : on_text_add(1, t)
    \/ on_text_add(2, T_dog_pes)

SpecAsync == InitAsync /\ [][NextAsync]_vars

\* the page o shows store S whole: the total is the number of the filtered
\* records of S, the page count is that of the total, and the rows are whole
\* records of S, those at the positions of the page in the order of the view
OneStoreView(o, S, C) ==
    LET F     == Filtered(o, S, C)
        first == o.page * PAGE_SIZE
        last  == Min2(o.total, (o.page + 1) * PAGE_SIZE) - 1
    IN  /\ o.total = Cardinality(F)
        /\ IsPageCount(o.total, o.tp)
        /\ Len(o.rows) = Max2(0, last - first + 1)
        /\ \A i \in 1..Len(o.rows) :
              \E r \in F :
                 /\ o.rows[i] = Row(r)
                 /\ Cardinality({x \in F : SeqLess(x.en_norm, r.en_norm)}) = first + i - 1

\* C25: a page that reaches the user after its handler was suspended, while
\* handlers of either user ran and wrote to the store, shows a total, a page
\* count and rows that all belong to one state of the store, the one the
\* handler read before its await: every row is a whole record of that state
C25_RenderOneStore ==
    [][\A u \in Users :
          (inflight[u].busy /\ ~inflight'[u].busy /\ out'.nq = 2)
          => /\ out'.uid = u
             /\ OneStoreView(out', inflight[u].seen, FIND_CACHE)]_vars

\* the list of user 1 arrives with the one word "cat - kot" the handler read,
\* after a write made during the await rewrote that word and another added one
C25_Witness ==
    /\ out.handler = "cb_all" /\ out.uid = 1 /\ out.nq = 2
    /\ out.total = 1 /\ Len(out.rows) = 1 /\ out.rows[1][3] = <<"k","o","t">>
    /\ Cardinality(OfUser(entries, 1)) = 2
    /\ \A r \in OfUser(entries, 1) : r.ru # <<"k","o","t">>

====
